---- MODULE Spec2Model ----
(***************************************************************************)
(* A model of mcp-sourcekit-lsp: the MCP server (src/server.ts), its tool  *)
(* operations (src/tools/*.ts) and the SourceKit-LSP client                *)
(* (src/lsp-client.ts) with the subprocess it owns.                        *)
(*                                                                         *)
(* One action is one turn of the Node event loop: an inbound event (a reply *)
(* or notification read from the subprocess, a completed file read or      *)
(* write, a timer, a signal, a tool call) together with every continuation *)
(* it resumes, each run up to its next await on input or output.           *)
(***************************************************************************)
EXTENDS Integers, Sequences, FiniteSets, TLC

\* ---------------------------------------------------------------- bounds
MaxOps == 2      \* tool calls made in one run
MaxStops == 1    \* SIGINT/SIGTERM deliveries in one run
MaxEdits == 1    \* changes made to the file system in one run
MaxPos == 2      \* lines and columns of a position: 1..MaxPos outside, 0..MaxPos-1 inside
MaxItems == 2    \* entries of a reply: locations, symbols, diagnostics, hover fragments
MaxConnects == 2 \* connect() calls made on one client
MaxChars == 4    \* characters of SOURCEKIT_BUILD_ARGS

OpIds == 1..MaxOps
StopIds == 1..MaxStops

\* ---------------------------------------------------------------- values
Files == {"/a.swift", "/b.swift"}
Contents == {"let x = 1", "let x = 2"}
Missing == "ENOENT"
DiagLists == {<< >>, <<"error">>, <<"warning", "error">>}

PositionTools == {"swift-hover", "swift-definition", "swift-references"}
ToolNames == PositionTools \cup {"swift-symbols", "swift-diagnostics"}

\* URI.file(file).toString()
FileUri(file) == "file://" \o file
Uris == {FileUri(f) : f \in Files}
NoUri == "-"
NoText == "-"

VARIABLES
    host,              \* the hosting process: "running" | "exited"
    startPc,           \* start() / connect(): "new" | "awaitInit" | "started" | "failed"
    mcpUp,             \* the MCP dispatcher is connected to its transport
    proc,              \* this.process: "none" | "running" | "exited" | "killed" | "unlaunched"
    conn,              \* this.connection: "none" | "listening" | "closed" | "disposed"
    nextId,            \* the connection's request sequence number
    pending,           \* outstanding requests of the connection
    wire,              \* every message written to the subprocess, in order
    openFiles,         \* this.openFiles: uri -> [version, content]
    diagnosticsCache,  \* this.diagnosticsCache: uri -> diagnostics
    fs,                \* the file system: file -> content | Missing
    ops,               \* the operations in progress: tool calls, or direct client calls
    stops,             \* the runs of MCPSourceKitServer.stop
    latest,            \* per uri, the diagnostics of the last notification received
    edits,             \* changes made to the file system so far
    io                 \* the last translation or rendering computed: its input and output

vars == <<host, startPc, mcpUp, proc, conn, nextId, pending, wire, openFiles,
          diagnosticsCache, fs, ops, stops, latest, edits, io>>

\* ------------------------------------------------- the session's life state
\* The code keeps no ConnectionState field; this reads the state of section 3
\* of the specification off the fields the code does keep.
InitializeOutstanding == \E p \in pending : p.method = "initialize"
ShutdownOutstanding == \E p \in pending : p.method = "shutdown"

ConnectionState ==
    IF conn = "none" THEN "Unstarted"
    ELSE IF conn \in {"closed", "disposed"} \/ proc \in {"exited", "killed"} THEN "Terminated"
    ELSE IF ShutdownOutstanding THEN "ShuttingDown"
    ELSE IF InitializeOutstanding THEN "Initializing"
    ELSE IF startPc = "failed" THEN "Unstarted"
    ELSE "Ready"

\* The same, telling the session that shutdown() ended from the one the
\* subprocess ended by dying.
SessionNow == IF conn = "disposed" THEN "Shutdown" ELSE ConnectionState

\* ------------------------------------------------------------ the connection
\* A message as written to the subprocess. tracked is not on the wire: it
\* records whether this.openFiles held the uri when the message was written.
Request(id, method, uri, files) ==
    [kind |-> "request", id |-> id, method |-> method, uri |-> uri,
     version |-> 0, text |-> NoText,
     tracked |-> uri \in DOMAIN files]

Notification(method, uri, version, text) ==
    [kind |-> "notification", id |-> -1, method |-> method, uri |-> uri,
     version |-> version, text |-> text,
     tracked |-> uri \in DOMAIN openFiles]

\* connection.sendRequest / sendNotification throw on a closed or disposed
\* connection and write otherwise; before connect() this.connection is
\* undefined and the call is a TypeError.
CanSend == conn = "listening"
SendError == IF conn = "none" THEN "typeError" ELSE "connectionClosed"

Pending(id, kind, n, method, uri) ==
    [id |-> id, owner |-> kind, n |-> n, method |-> method, uri |-> uri]

\* The result the subprocess computes for a request: it answers that request's
\* question and no other one's.
Answer(r) == [method |-> r.method, uri |-> r.uri, q |-> r.id]
NoPayload == [method |-> "-", uri |-> "-", q |-> -1]

\* Fault: a connection that hands each reply to the oldest outstanding request.
ResponsePromiseOldest(pend, id) == CHOOSE p \in pend : \A q \in pend : p.id <= q.id

\* The connection resolves the promise registered under the reply's id.
ResponsePromise(pend, id) == CHOOSE p \in pend : p.id = id

\* Map.set(key, value) and the empty Map
EmptyMap == [k \in {} |-> 0]
MapSet(map, key, value) ==
    [k \in DOMAIN map \cup {key} |-> IF k = key THEN value ELSE map[k]]

\* ------------------------------------------------------------------- Init
NoIo == [kind |-> "none"]

IdleOp ==
    [pc |-> "idle", tool |-> "-", file |-> "-", uri |-> NoUri, content |-> NoText,
     version |-> 0, id |-> -1, res |-> "-", got |-> NoPayload, diag |-> << >>,
     born |-> "-", text |-> "-"]

Init ==
    /\ host = "running"
    /\ startPc = "new"
    /\ mcpUp = FALSE
    /\ proc = "none"
    /\ conn = "none"
    /\ nextId = 0
    /\ pending = {}
    /\ wire = << >>
    /\ openFiles = EmptyMap
    /\ diagnosticsCache = EmptyMap
    /\ fs = [f \in Files |-> "let x = 1"]
    /\ ops = [o \in OpIds |-> IdleOp]
    /\ stops = [s \in StopIds |-> "idle"]
    /\ latest = EmptyMap
    /\ edits = 0
    /\ io = NoIo


\* ------------------------------------------------------ openFile(uri, content)
\* Fault: openFile without the comparison of the stored content (line 94).
OpenFilePlanNoCompare(files, uri, content) ==
    IF uri \in DOMAIN files
    THEN [act |-> "didChange", version |-> files[uri].version + 1]
    ELSE [act |-> "didOpen", version |-> 1]

\* Fault: openFile announcing a changed document as a newly opened one.
OpenFileMessageAlwaysOpen(plan, uri, content) ==
    Notification("textDocument/didOpen", uri, 1, content)

\* What openFile does for the entry it finds: nothing, a didChange at the next
\* version, or a didOpen at version 1.
OpenFilePlan(files, uri, content) ==
    IF uri \in DOMAIN files
    THEN IF files[uri].content = content
         THEN [act |-> "return", version |-> files[uri].version]
         ELSE [act |-> "didChange", version |-> files[uri].version + 1]
    ELSE [act |-> "didOpen", version |-> 1]

\* The notification openFile / updateFile sends for a plan.
OpenFileMessage(plan, uri, content) ==
    IF plan.act = "didChange"
    THEN Notification("textDocument/didChange", uri, plan.version, content)
    ELSE Notification("textDocument/didOpen", uri, 1, content)

\* openFiles.set(uri, { version, content }) after the awaited notification.
OpenFileSet(files, uri, version, content) ==
    MapSet(files, uri, [version |-> version, content |-> content])

\* getFileVersion(uri); 0 stands for null.
getFileVersion(files, uri) ==
    IF uri \in DOMAIN files THEN files[uri].version ELSE 0

\* Fault: getDiagnostics without the "|| []" of line 166.
getDiagnosticsNoDefault(cache, uri) ==
    IF uri \in DOMAIN cache THEN cache[uri] ELSE <<"undefined">>

\* getDiagnostics(uri)
getDiagnostics(cache, uri) ==
    IF uri \in DOMAIN cache THEN cache[uri] ELSE << >>

\* Fault: a handler that appends the new diagnostics to the stored ones.
StoreDiagnosticsAppend(cache, uri, diagnostics) ==
    MapSet(cache, uri, getDiagnostics(cache, uri) \o diagnostics)

\* The publishDiagnostics handler: diagnosticsCache.set(params.uri, params.diagnostics)
StoreDiagnostics(cache, uri, diagnostics) ==
    MapSet(cache, uri, diagnostics)

\* The request a tool sends: lspClient.hover / definition / references /
\* workspaceSymbols.
QueryMethod(tool) ==
    CASE tool = "swift-hover" -> "textDocument/hover"
      [] tool = "swift-definition" -> "textDocument/definition"
      [] tool = "swift-references" -> "textDocument/references"
      [] tool = "swift-symbols" -> "workspace/symbol"
      [] tool = "hover" -> "textDocument/hover"
      [] tool = "definition" -> "textDocument/definition"
      [] tool = "references" -> "textDocument/references"
      [] tool = "workspaceSymbols" -> "workspace/symbol"
      [] OTHER -> "-"

\* --------------------------------------------- start() and connect()
\* main() calls start(), which calls connect(): spawn, createMessageConnection,
\* onNotification, listen, and the initialize request, up to its await.
Connect ==
    /\ host = "running"
    /\ startPc = "new"
    /\ proc' = "running"
    /\ conn' = "listening"
    /\ wire' = Append(wire, Request(nextId, "initialize", NoUri, openFiles))
    /\ pending' = pending \cup {Pending(nextId, "connect", 0, "initialize", NoUri)}
    /\ nextId' = nextId + 1
    /\ startPc' = "awaitInit"
    /\ UNCHANGED <<host, mcpUp, openFiles, diagnosticsCache, fs, ops, stops, latest, edits, io>>

\* start() -> connect() when the executable cannot be launched. spawn() still
\* returns a child object with its three pipes, so connect() runs on to its
\* await of the initialize request on streams that lead nowhere; the child's
\* 'error' event is emitted from process.nextTick, after connect() has
\* suspended, and the handler of lines 37-40 rethrows it inside the emitter. No
\* uncaughtException handler is installed: the exception ends the hosting
\* process, while connect() itself has neither returned nor thrown.
ConnectSpawnError ==
    /\ host = "running"
    /\ startPc = "new"
    /\ proc' = "unlaunched"
    /\ conn' = "closed"
    /\ pending' = pending \cup {Pending(nextId, "connect", 0, "initialize", NoUri)}
    /\ nextId' = nextId + 1
    /\ startPc' = "awaitInit"
    /\ host' = "exited"
    /\ UNCHANGED <<mcpUp, wire, openFiles, diagnosticsCache, fs, ops, stops, latest, edits, io>>

\* ------------------------------------------------------- the tool operations
\* The text each tool's catch puts before the error message.
FailPrefix(tool) ==
    CASE tool = "swift-hover" -> "Failed to get hover information: "
      [] tool = "swift-definition" -> "Failed to find definition: "
      [] tool = "swift-references" -> "Failed to find references: "
      [] tool = "swift-symbols" -> "Failed to search symbols: "
      [] tool = "swift-diagnostics" -> "Failed to get diagnostics: "
      [] OTHER -> ""

\* error.message of what was thrown. The messages of the connection's own
\* errors and of an error reply are not fixed by this repository.
ErrorMessage(res, file) ==
    CASE res = "fileNotFound" -> "File not found: " \o file
      [] res = "connectionClosed" -> "Connection is closed."
      [] res = "typeError" -> "Cannot read properties of undefined"
      [] res = "rejected" -> "Pending response rejected since connection got disposed"
      [] res = "remoteError" -> "<message of the error reply>"
      [] OTHER -> ""

\* The text a tool returns: the rendered result, the tool's nothing-found
\* text, or its catch's rendering of the error. A client method returns no
\* text.
ResultText(op, res) ==
    IF op.tool \notin ToolNames THEN "-"
    ELSE IF res = "ok" THEN "<rendered result>"
    ELSE IF res = "nothing" THEN "No diagnostics (errors or warnings) found for this file"
    ELSE FailPrefix(op.tool) \o ErrorMessage(res, op.file)

\* An operation ends: a tool returns the rendered text, a client method
\* returns or throws. The record of a finished openFile call keeps the
\* arguments it was called with.
Done(op, res) ==
    IF op.tool = "openFile"
    THEN [op EXCEPT !.pc = "done", !.res = res, !.version = 0]
    ELSE [op EXCEPT !.pc = "done", !.res = res, !.file = "-", !.content = NoText,
                    !.version = 0, !.text = ResultText(op, res)]

\* Fault: a query method that sends its request a second time.
SendQueryTwice(o, op, files) ==
    IF CanSend
    THEN /\ wire' = Append(Append(wire, Request(nextId, QueryMethod(op.tool), op.uri, files)),
                           Request(nextId + 1, QueryMethod(op.tool), op.uri, files))
         /\ pending' = pending \cup {Pending(nextId + 1, "op", o, QueryMethod(op.tool), op.uri)}
         /\ nextId' = nextId + 2
         /\ ops' = [ops EXCEPT ![o] = [op EXCEPT !.pc = "awaitReply", !.id = nextId + 1]]
    ELSE /\ ops' = [ops EXCEPT ![o] = Done(op, SendError)]
         /\ UNCHANGED <<wire, pending, nextId>>

\* A query method of the client: connection.sendRequest(method, params). It
\* throws on a closed or disposed connection; the tool's catch renders that.
SendQuery(o, op, files) ==
    IF CanSend
    THEN /\ wire' = Append(wire, Request(nextId, QueryMethod(op.tool), op.uri, files))
         /\ pending' = pending \cup {Pending(nextId, "op", o, QueryMethod(op.tool), op.uri)}
         /\ nextId' = nextId + 1
         /\ ops' = [ops EXCEPT ![o] = [op EXCEPT !.pc = "awaitReply", !.id = nextId]]
    ELSE /\ ops' = [ops EXCEPT ![o] = Done(op, SendError)]
         /\ UNCHANGED <<wire, pending, nextId>>

\* After openFile returned: a position tool sends its request, the diagnostics
\* tool starts its 100 ms wait; a direct caller of the client has its answer.
AfterOpen(o, op, files) ==
    IF op.tool \in PositionTools
    THEN SendQuery(o, op, files)
    ELSE /\ ops' = [ops EXCEPT ![o] = IF op.tool = "swift-diagnostics"
                                      THEN [op EXCEPT !.pc = "settle"]
                                      ELSE Done(op, "returned")]
         /\ UNCHANGED <<wire, pending, nextId>>

\* Fault: position tools that send their request without reading and opening
\* the file first.
CallToolNoOpen(o, tool, file) ==
    /\ host = "running"
    /\ mcpUp
    /\ ops[o].pc = "idle"
    /\ \A k \in OpIds : k < o => ops[k].pc # "idle"
    /\ SendQuery(o, [ops[o] EXCEPT !.tool = tool, !.born = SessionNow,
                                   !.uri = IF tool = "swift-symbols" THEN NoUri
                                           ELSE FileUri(file)],
                 openFiles)
    /\ UNCHANGED <<host, startPc, mcpUp, proc, conn, openFiles, diagnosticsCache, fs,
                   stops, latest, edits, io>>

\* The CallToolRequest handler starts a tool: swift-symbols sends its request at
\* once, the other tools first await fs.readFile.
CallTool(o, tool, file) ==
    /\ host = "running"
    /\ mcpUp
    /\ ops[o].pc = "idle"
    /\ \A k \in OpIds : k < o => ops[k].pc # "idle"
    /\ LET op == [ops[o] EXCEPT !.tool = tool, !.born = SessionNow]
       IN  IF tool = "swift-symbols"
           THEN SendQuery(o, op, openFiles)
           ELSE /\ ops' = [ops EXCEPT ![o] = [op EXCEPT !.pc = "readFile", !.file = file,
                                                         !.uri = FileUri(file)]]
                /\ UNCHANGED <<wire, pending, nextId>>
    /\ UNCHANGED <<host, startPc, mcpUp, proc, conn, openFiles, diagnosticsCache, fs,
                   stops, latest, edits, io>>

\* ------------------------------------------- validation of tool arguments
\* The arguments object of a tools/call request: the properties it carries and
\* their values (the value of a property it does not carry is not read).
ArgKeys == {"file", "line", "column", "query", "includeDeclaration", "other"}

ToolArgs ==
    {a \in [given : BOOLEAN, keys : SUBSET ArgKeys, file : {"/a.swift", "-"},
            line : 0..1, column : 0..1, query : {"-", "", "foo"}] :
        /\ (a.file = "-") = ("file" \notin a.keys)
        /\ "line" \notin a.keys => a.line = 0
        /\ "column" \notin a.keys => a.column = 0
        /\ (a.query = "-") = ("query" \notin a.keys)
        /\ ~a.given => a.keys = {}}

CallNames == ToolNames \cup {"swift-rename"}

\* TOOL_DEFINITIONS: inputSchema.properties and inputSchema.required
SchemaProperties(name) ==
    CASE name \in {"swift-hover", "swift-definition"} -> {"file", "line", "column"}
      [] name = "swift-references" -> {"file", "line", "column", "includeDeclaration"}
      [] name = "swift-symbols" -> {"query"}
      [] name = "swift-diagnostics" -> {"file"}

SchemaRequired(name) ==
    CASE name \in PositionTools -> <<"file", "line", "column">>
      [] name = "swift-symbols" -> <<"query">>
      [] name = "swift-diagnostics" -> <<"file">>

\* Fault: a validation without the minimum / minLength constraints that
\* validateToolArgs adds to the public schema (lines 193-199).
validateToolArgsPublicSchema(name, args) ==
    IF name \notin ToolNames THEN "Unknown tool: " \o name
    ELSE LET required == SchemaRequired(name)
             missing == {i \in DOMAIN required : required[i] \notin args.keys}
         IN  IF missing # {}
             THEN "root must have required property '"
                    \o required[CHOOSE i \in missing : \A j \in missing : i <= j] \o "'"
             ELSE IF args.keys \ SchemaProperties(name) # {}
             THEN "root must NOT have additional properties"
             ELSE ""

\* validateToolArgs(toolName, args): "" stands for null. The schema is the
\* tool's inputSchema with additionalProperties false, minimum 1 on line and
\* column and minLength 1 on query; ajv reports the first failure it meets.
validateToolArgs(name, args) ==
    IF name \notin ToolNames THEN "Unknown tool: " \o name
    ELSE LET required == SchemaRequired(name)
             missing == {i \in DOMAIN required : required[i] \notin args.keys}
         IN  IF missing # {}
             THEN "root must have required property '"
                    \o required[CHOOSE i \in missing : \A j \in missing : i <= j] \o "'"
             ELSE IF args.keys \ SchemaProperties(name) # {}
             THEN "root must NOT have additional properties"
             ELSE IF "line" \in args.keys /\ args.line < 1 THEN "/line must be >= 1"
             ELSE IF "column" \in args.keys /\ args.column < 1 THEN "/column must be >= 1"
             ELSE IF "query" \in args.keys /\ args.query = ""
             THEN "/query must NOT have fewer than 1 characters"
             ELSE ""

\* The text the CallToolRequest handler returns without running a tool; ""
\* when it runs one.
RefusalText(name, args) ==
    IF ~args.given THEN "Error: No arguments provided"
    ELSE IF validateToolArgs(name, args) # ""
    THEN "Validation error: " \o validateToolArgs(name, args)
    ELSE ""

\* The CallToolRequest handler: it returns the refusal, or runs the tool named
\* on the arguments given.
CallToolRequest(o, name, args) ==
    /\ host = "running"
    /\ mcpUp
    /\ ops[o].pc = "idle"
    /\ \A k \in OpIds : k < o => ops[k].pc # "idle"
    /\ IF RefusalText(name, args) # ""
       THEN /\ ops' = [ops EXCEPT ![o] = [@ EXCEPT !.pc = "done", !.tool = name,
                                                   !.res = "refused", !.born = SessionNow,
                                                   !.text = RefusalText(name, args)]]
            /\ UNCHANGED <<host, startPc, mcpUp, proc, conn, nextId, pending, wire, openFiles,
                           diagnosticsCache, fs, stops, latest, edits, io>>
       ELSE CallTool(o, name, args.file)

\* Fault: a tool without the ENOENT test of its inner catch, which goes on to
\* openFile with whatever the read produced.
ReadFileDoneNoCheck(o) ==
    /\ host = "running"
    /\ ops[o].pc = "readFile"
    /\ LET op == ops[o]
           content == fs[op.file]
           plan == OpenFilePlan(openFiles, op.uri, content)
       IN  IF plan.act = "return"
           THEN AfterOpen(o, op, openFiles)
           ELSE IF CanSend
           THEN /\ wire' = Append(wire, OpenFileMessage(plan, op.uri, content))
                /\ ops' = [ops EXCEPT ![o] = [op EXCEPT !.pc = "awaitNotify", !.content = content,
                                                         !.version = plan.version]]
                /\ UNCHANGED <<pending, nextId>>
           ELSE /\ ops' = [ops EXCEPT ![o] = Done(op, SendError)]
                /\ UNCHANGED <<wire, pending, nextId>>
    /\ UNCHANGED <<host, startPc, mcpUp, proc, conn, openFiles, diagnosticsCache, fs,
                   stops, latest, edits, io>>

\* fs.readFile settled. ENOENT is rendered as "File not found". Otherwise
\* openFile(uri, content) runs: it returns at once for an unchanged entry, and
\* the tool goes on; or it sends its notification and awaits the write; or
\* the send throws.
ReadFileDone(o) ==
    /\ host = "running"
    /\ ops[o].pc = "readFile"
    /\ LET op == ops[o]
           content == fs[op.file]
           plan == OpenFilePlan(openFiles, op.uri, content)
       IN  IF content = Missing
           THEN /\ ops' = [ops EXCEPT ![o] = Done(op, "fileNotFound")]
                /\ UNCHANGED <<wire, pending, nextId>>
           ELSE IF plan.act = "return"
           THEN AfterOpen(o, op, openFiles)
           ELSE IF CanSend
           THEN /\ wire' = Append(wire, OpenFileMessage(plan, op.uri, content))
                /\ ops' = [ops EXCEPT ![o] = [op EXCEPT !.pc = "awaitNotify", !.content = content,
                                                         !.version = plan.version]]
                /\ UNCHANGED <<pending, nextId>>
           ELSE /\ ops' = [ops EXCEPT ![o] = Done(op, SendError)]
                /\ UNCHANGED <<wire, pending, nextId>>
    /\ UNCHANGED <<host, startPc, mcpUp, proc, conn, openFiles, diagnosticsCache, fs,
                   stops, latest, edits, io>>

\* Fault: a closeFile that leaves the entry in the tracker.
MapDeleteNone(map, key) == map

\* openFiles.delete(uri)
MapDelete(map, key) == [k \in DOMAIN map \ {key} |-> map[k]]

\* The awaited notification was written. openFile: openFiles.set, return, and
\* the tool goes on. closeFile: openFiles.delete, return.
NotifyDone(o) ==
    /\ host = "running"
    /\ ops[o].pc = "awaitNotify"
    /\ LET files == IF ops[o].tool = "closeFile"
                    THEN MapDelete(openFiles, ops[o].uri)
                    ELSE OpenFileSet(openFiles, ops[o].uri, ops[o].version, ops[o].content)
       IN  /\ openFiles' = files
           /\ AfterOpen(o, ops[o], files)
    /\ UNCHANGED <<host, startPc, mcpUp, proc, conn, diagnosticsCache, fs, stops, latest, edits, io>>

\* Fault: an openFile that stores the entry before it awaits the notification,
\* so that a failed write leaves the entry behind.
NotifyFailSet(o) ==
    /\ host = "running"
    /\ ops[o].pc = "awaitNotify"
    /\ conn # "listening"
    /\ ops' = [ops EXCEPT ![o] = Done(ops[o], "connectionClosed")]
    /\ openFiles' = IF ops[o].tool = "closeFile"
                    THEN openFiles
                    ELSE OpenFileSet(openFiles, ops[o].uri, ops[o].version, ops[o].content)
    /\ UNCHANGED <<host, startPc, mcpUp, proc, conn, nextId, pending, wire,
                   diagnosticsCache, fs, stops, latest, edits, io>>

\* The awaited notification could not be written: the connection closed while
\* the write was queued. sendNotification rejects, openFile / closeFile throw
\* at their await, and the openFiles.set / delete after it is not reached.
NotifyFail(o) ==
    /\ host = "running"
    /\ ops[o].pc = "awaitNotify"
    /\ conn # "listening"
    /\ ops' = [ops EXCEPT ![o] = Done(ops[o], "connectionClosed")]
    /\ UNCHANGED <<host, startPc, mcpUp, proc, conn, nextId, pending, wire, openFiles,
                   diagnosticsCache, fs, stops, latest, edits, io>>

\* Fault: a timer that also gives up a request still waiting for its reply.
SettleOrTimeout(o) ==
    /\ host = "running"
    /\ ops[o].pc \in {"settle", "awaitReply"}
    /\ LET d == getDiagnostics(diagnosticsCache, ops[o].uri)
       IN  ops' = [ops EXCEPT ![o] =
                      IF ops[o].pc = "awaitReply"
                      THEN Done(ops[o], "rejected")
                      ELSE [Done(ops[o], IF d = << >> THEN "nothing" ELSE "ok")
                              EXCEPT !.diag = d]]
    /\ pending' = {r \in pending : ~(r.owner = "op" /\ r.n = o)}
    /\ UNCHANGED <<host, startPc, mcpUp, proc, conn, nextId, wire, openFiles,
                   diagnosticsCache, fs, stops, latest, edits, io>>

\* The diagnostics tool after its wait: lspClient.getDiagnostics(uri).
Settle(o) ==
    /\ host = "running"
    /\ ops[o].pc = "settle"
    /\ LET d == getDiagnostics(diagnosticsCache, ops[o].uri)
       IN  ops' = [ops EXCEPT ![o] = [Done(ops[o], IF d = << >> THEN "nothing" ELSE "ok")
                                        EXCEPT !.diag = d]]
    /\ UNCHANGED <<host, startPc, mcpUp, proc, conn, nextId, pending, wire, openFiles,
                   diagnosticsCache, fs, stops, latest, edits, io>>

\* --------------------------------------------------------------- replies
\* Fault: a dispose() that leaves the outstanding requests unsettled.
RejectOpsNone(pend) == ops

\* connection.dispose() rejects every promise still registered ("Pending
\* response rejected since connection got disposed"); each tool's catch renders
\* the rejection.
RejectOps(pend) ==
    [o \in OpIds |->
        IF \E p \in pend : p.owner = "op" /\ p.n = o
        THEN Done(ops[o], "rejected")
        ELSE ops[o]]

\* The subprocess answers request r, successfully or with an error reply, and
\* the connection hands the reply to the promise registered under its id.
\* - initialize: connect() sends the initialized notification and returns, and
\*   start() connects the MCP transport; on an error reply connect() throws,
\*   start() rethrows and main() calls process.exit(1).
\* - a query: the tool renders the result or the error.
\* - shutdown: shutdown() sends exit, disposes the connection and kills the
\*   subprocess; stop() goes on to server.close() and the signal handler to
\*   process.exit(0). An error reply makes shutdown() throw before any of that.
Reply(r, ok) ==
    /\ host = "running"
    /\ proc = "running"
    /\ conn = "listening"
    /\ r \in pending
    /\ LET reply == [id |-> r.id, payload |-> Answer(r)]
           target == ResponsePromise(pending, reply.id)
           rest == pending \ {target}
       IN  CASE target.owner = "connect" ->
                  /\ pending' = rest
                  /\ startPc' = IF ~ok THEN "failed"
                                ELSE IF startPc = "awaitInit" THEN "started" ELSE "connected"
                  /\ mcpUp' = (ok /\ startPc = "awaitInit")
                  /\ host' = IF ~ok /\ startPc = "awaitInit" THEN "exited" ELSE host
                  /\ wire' = IF ok
                             THEN Append(wire, Notification("initialized", NoUri, 0, NoText))
                             ELSE wire
                  /\ UNCHANGED <<ops, stops, conn, proc>>
             [] target.owner = "op" ->
                  /\ pending' = rest
                  /\ ops' = [ops EXCEPT ![target.n] =
                                [Done(ops[target.n], IF ok THEN "ok" ELSE "remoteError")
                                   EXCEPT !.got = reply.payload]]
                  /\ UNCHANGED <<startPc, mcpUp, host, wire, stops, conn, proc>>
             [] target.owner = "stop" ->
                  IF ok
                  THEN /\ wire' = Append(wire, Notification("exit", NoUri, 0, NoText))
                       /\ conn' = "disposed"
                       /\ proc' = "killed"
                       /\ pending' = {}
                       /\ ops' = RejectOps(rest)
                       /\ startPc' = IF \E p \in rest : p.owner = "connect"
                                     THEN "failed" ELSE startPc
                       /\ stops' = [s \in StopIds |->
                                      IF s = target.n THEN "done"
                                      ELSE IF \E p \in rest : p.owner = "stop" /\ p.n = s
                                      THEN "failed" ELSE stops[s]]
                       /\ mcpUp' = FALSE
                       /\ host' = IF stops[target.n] = "awaitStop" THEN "exited" ELSE host
                  ELSE /\ pending' = rest
                       /\ stops' = [stops EXCEPT ![target.n] = "failed"]
                       /\ UNCHANGED <<startPc, mcpUp, host, wire, ops, conn, proc>>
    /\ UNCHANGED <<nextId, openFiles, diagnosticsCache, fs, latest, edits, io>>

\* ------------------------------------------------------- the subprocess
\* Fault: an 'exit' handler that takes up its comment ("Optionally restart")
\* and connects again.
ProcessExitRestart ==
    /\ host = "running"
    /\ proc = "running"
    /\ proc' = "running"
    /\ conn' = "listening"
    /\ wire' = Append(wire, Request(nextId, "initialize", NoUri, openFiles))
    /\ pending' = {Pending(nextId, "restart", 0, "initialize", NoUri)}
    /\ nextId' = nextId + 1
    /\ UNCHANGED <<host, startPc, mcpUp, openFiles, diagnosticsCache, fs, ops, stops,
                   latest, edits, io>>

\* The subprocess exits on its own. The 'exit' handler only logs; the
\* connection's reader sees the stream close, after which sends throw. No
\* outstanding request is touched.
ProcessExit ==
    /\ host = "running"
    /\ proc = "running"
    /\ proc' = "exited"
    /\ conn' = IF conn = "listening" THEN "closed" ELSE conn
    /\ UNCHANGED <<host, startPc, mcpUp, nextId, pending, wire, openFiles,
                   diagnosticsCache, fs, ops, stops, latest, edits, io>>

\* The subprocess pushes textDocument/publishDiagnostics for a uri.
PublishDiagnostics(uri, diagnostics) ==
    /\ host = "running"
    /\ proc = "running"
    /\ conn = "listening"
    /\ diagnosticsCache' = StoreDiagnostics(diagnosticsCache, uri, diagnostics)
    /\ latest' = MapSet(latest, uri, diagnostics)
    /\ UNCHANGED <<host, startPc, mcpUp, proc, conn, nextId, pending, wire, openFiles,
                   fs, ops, stops, edits, io>>

\* ----------------------------------------------------- the file system
\* A file is written, created or removed by someone else.
EditFile(file, content) ==
    /\ host = "running"
    /\ edits < MaxEdits
    /\ fs[file] # content
    /\ fs' = [fs EXCEPT ![file] = content]
    /\ edits' = edits + 1
    /\ UNCHANGED <<host, startPc, mcpUp, proc, conn, nextId, pending, wire, openFiles,
                   diagnosticsCache, ops, stops, latest, io>>

\* ------------------------------------------------------ stop() and shutdown()
\* SIGINT or SIGTERM: stop() calls lspClient.shutdown(), which sends the
\* shutdown request and awaits it. Without a live connection the call throws.
Signal(s) ==
    /\ host = "running"
    /\ startPc # "new"
    /\ stops[s] = "idle"
    /\ \A k \in StopIds : k < s => stops[k] # "idle"
    /\ IF CanSend
       THEN /\ wire' = Append(wire, Request(nextId, "shutdown", NoUri, openFiles))
            /\ pending' = pending \cup {Pending(nextId, "stop", s, "shutdown", NoUri)}
            /\ nextId' = nextId + 1
            /\ stops' = [stops EXCEPT ![s] = "awaitStop"]
       ELSE /\ stops' = [stops EXCEPT ![s] = "failed"]
            /\ UNCHANGED <<wire, pending, nextId>>
    /\ UNCHANGED <<host, startPc, mcpUp, proc, conn, openFiles, diagnosticsCache, fs,
                   ops, latest, edits, io>>

\* ------------------------------------------- the client called directly
\* connect(workspaceRoot) called by some other caller than start().
ClientConnect ==
    /\ startPc = "new"
    /\ proc' = "running"
    /\ conn' = "listening"
    /\ wire' = Append(wire, Request(nextId, "initialize", NoUri, openFiles))
    /\ pending' = pending \cup {Pending(nextId, "connect", 0, "initialize", NoUri)}
    /\ nextId' = nextId + 1
    /\ startPc' = "awaitConnect"
    /\ UNCHANGED <<host, mcpUp, openFiles, diagnosticsCache, fs, ops, stops, latest, edits, io>>

\* connect(workspaceRoot) called on a client that was connected before:
\* connect() tests nothing, so it spawns again, overwrites this.process and
\* this.connection and sends initialize on the new connection. The subprocess
\* and the connection that were there are neither killed nor disposed; the
\* model follows the ones the fields now refer to, and the requests
\* outstanding on the replaced connection stay behind with it.
ClientReconnect ==
    /\ startPc \in {"awaitConnect", "connected", "failed"}
    /\ Cardinality({i \in DOMAIN wire : wire[i].method = "initialize"}) < MaxConnects
    /\ proc' = "running"
    /\ conn' = "listening"
    /\ wire' = Append(wire, Request(nextId, "initialize", NoUri, openFiles))
    /\ pending' = {Pending(nextId, "connect", 0, "initialize", NoUri)}
    /\ nextId' = nextId + 1
    /\ startPc' = "awaitConnect"
    /\ UNCHANGED <<host, mcpUp, openFiles, diagnosticsCache, fs, ops, stops, latest, edits, io>>

\* openFile(uri, content)
ClientOpenFile(o, uri, content) ==
    /\ ops[o].pc = "idle"
    /\ \A k \in OpIds : k < o => ops[k].pc # "idle"
    /\ LET op == [ops[o] EXCEPT !.tool = "openFile", !.uri = uri, !.content = content,
                                !.born = SessionNow]
           plan == OpenFilePlan(openFiles, uri, content)
       IN  IF plan.act = "return"
           THEN /\ ops' = [ops EXCEPT ![o] = Done(op, "returned")]
                /\ UNCHANGED wire
           ELSE IF CanSend
           THEN /\ wire' = Append(wire, OpenFileMessage(plan, uri, content))
                /\ ops' = [ops EXCEPT ![o] = [op EXCEPT !.pc = "awaitNotify",
                                                         !.version = plan.version]]
           ELSE /\ ops' = [ops EXCEPT ![o] = Done(op, SendError)]
                /\ UNCHANGED wire
    /\ UNCHANGED <<host, startPc, mcpUp, proc, conn, nextId, pending, openFiles,
                   diagnosticsCache, fs, stops, latest, edits, io>>

\* closeFile(uri): the didClose notification, then (NotifyDone) the delete.
ClientCloseFile(o, uri) ==
    /\ ops[o].pc = "idle"
    /\ \A k \in OpIds : k < o => ops[k].pc # "idle"
    /\ LET op == [ops[o] EXCEPT !.tool = "closeFile", !.uri = uri, !.born = SessionNow]
       IN  IF CanSend
           THEN /\ wire' = Append(wire, Notification("textDocument/didClose", uri, 0, NoText))
                /\ ops' = [ops EXCEPT ![o] = [op EXCEPT !.pc = "awaitNotify"]]
           ELSE /\ ops' = [ops EXCEPT ![o] = Done(op, SendError)]
                /\ UNCHANGED wire
    /\ UNCHANGED <<host, startPc, mcpUp, proc, conn, nextId, pending, openFiles,
                   diagnosticsCache, fs, stops, latest, edits, io>>

\* hover / definition / references (uri, line, character), workspaceSymbols(query)
ClientQueries == {"hover", "definition", "references", "workspaceSymbols"}

ClientQuery(o, fn, uri) ==
    /\ ops[o].pc = "idle"
    /\ \A k \in OpIds : k < o => ops[k].pc # "idle"
    /\ SendQuery(o, [ops[o] EXCEPT !.tool = fn, !.born = SessionNow,
                                   !.uri = IF fn = "workspaceSymbols" THEN NoUri ELSE uri],
                 openFiles)
    /\ UNCHANGED <<host, startPc, mcpUp, proc, conn, openFiles, diagnosticsCache, fs,
                   stops, latest, edits, io>>

\* Fault: a getDiagnostics that removes the entry it returns.
ClientGetDiagnosticsTake(o, uri) ==
    /\ ops[o].pc = "idle"
    /\ \A k \in OpIds : k < o => ops[k].pc # "idle"
    /\ ops' = [ops EXCEPT ![o] =
                  [Done(ops[o], "returned") EXCEPT !.tool = "getDiagnostics", !.uri = uri,
                       !.born = SessionNow,
                       !.diag = getDiagnostics(diagnosticsCache, uri)]]
    /\ diagnosticsCache' = MapDelete(diagnosticsCache, uri)
    /\ UNCHANGED <<host, startPc, mcpUp, proc, conn, nextId, pending, wire, openFiles,
                   fs, stops, latest, edits, io>>

\* getDiagnostics(uri)
ClientGetDiagnostics(o, uri) ==
    /\ ops[o].pc = "idle"
    /\ \A k \in OpIds : k < o => ops[k].pc # "idle"
    /\ ops' = [ops EXCEPT ![o] =
                  [Done(ops[o], "returned") EXCEPT !.tool = "getDiagnostics", !.uri = uri,
                       !.born = SessionNow,
                       !.diag = getDiagnostics(diagnosticsCache, uri)]]
    /\ UNCHANGED <<host, startPc, mcpUp, proc, conn, nextId, pending, wire, openFiles,
                   diagnosticsCache, fs, stops, latest, edits, io>>

\* shutdown() called by some other caller than stop().
ClientShutdown(s) ==
    /\ stops[s] = "idle"
    /\ \A k \in StopIds : k < s => stops[k] # "idle"
    /\ IF CanSend
       THEN /\ wire' = Append(wire, Request(nextId, "shutdown", NoUri, openFiles))
            /\ pending' = pending \cup {Pending(nextId, "stop", s, "shutdown", NoUri)}
            /\ nextId' = nextId + 1
            /\ stops' = [stops EXCEPT ![s] = "awaitShutdown"]
       ELSE /\ stops' = [stops EXCEPT ![s] = "failed"]
            /\ UNCHANGED <<wire, pending, nextId>>
    /\ UNCHANGED <<host, startPc, mcpUp, proc, conn, openFiles, diagnosticsCache, fs,
                   ops, latest, edits, io>>

\* ------------------------------------------------ launch configuration
\* An environment variable: unset, or set to a value. SOURCEKIT_LSP_PATH is
\* drawn as a whole string, SOURCEKIT_BUILD_ARGS as its sequence of characters.
Unset(empty) == [set |-> FALSE, value |-> empty]
LspPaths == {Unset(""), [set |-> TRUE, value |-> ""],
             [set |-> TRUE, value |-> "/opt/swift/bin/sourcekit-lsp"]}
BuildArgStrings ==
    {Unset(<< >>)}
      \cup {[set |-> TRUE, value |-> v] : v \in UNION {[1..k -> {"a", " "}] : k \in 0..MaxChars}}
WorkspaceRoots == {"/ws", "/ws/pkg"}

\* String.prototype.split(' '): the pieces between the spaces, an empty piece
\* for an empty string and between two adjacent spaces.
Split(str) ==
    LET f[i \in 0..Len(str)] ==
            IF i = 0 THEN << << >> >>
            ELSE IF str[i] = " " THEN Append(f[i - 1], << >>)
            ELSE [f[i - 1] EXCEPT ![Len(f[i - 1])] = Append(@, str[i])]
    IN  f[Len(str)]

\* process.env.SOURCEKIT_LSP_PATH || 'sourcekit-lsp': an unset and an empty
\* variable are both falsy.
lspPath(env) == IF env.set /\ env.value # "" THEN env.value ELSE "sourcekit-lsp"

\* Fault: the whole of SOURCEKIT_BUILD_ARGS passed as one argument.
buildArgsUnsplit(env) == IF env.set THEN <<env.value>> ELSE << >>

\* process.env.SOURCEKIT_BUILD_ARGS?.split(' ') || []: an array is truthy, so
\* the right-hand side is taken only for an unset variable.
buildArgs(env) == IF env.set THEN Split(env.value) ELSE << >>

\* connect(workspaceRoot): the spawn call of lines 31-34.
Spawn(path, args, workspaceRoot) ==
    /\ io' = [kind |-> "spawn", path |-> path, args |-> args, root |-> workspaceRoot,
              spawn |-> <<[command |-> lspPath(path), args |-> buildArgs(args),
                           cwd |-> workspaceRoot, stdio |-> <<"pipe", "pipe", "pipe">>]>>]
    /\ UNCHANGED <<host, startPc, mcpUp, proc, conn, nextId, pending, wire, openFiles,
                   diagnosticsCache, fs, ops, stops, latest, edits>>

\* ------------------------------------------- translation of positions
\* Fault: a tool that passes the caller's line and column on as they are.
ToolPositionNoShift(line, column) == [line |-> line, character |-> column]

\* const lspLine = line - 1; const lspColumn = column - 1
ToolPosition(line, column) == [line |-> line - 1, character |-> column - 1]

\* The params of hover / definition / references(uri, line, character).
PositionParams(uri, line, character) ==
    [textDocument |-> [uri |-> uri],
     position |-> [line |-> line, character |-> character]]

\* The includeDeclaration argument of a swift-references call: given with a
\* value, or omitted.
OmittedArg == [given |-> FALSE, value |-> FALSE]
GivenArgs == {[given |-> TRUE, value |-> v] : v \in BOOLEAN}

\* Fault: a references tool that passes the argument on as it came, so that an
\* omitted argument goes out as a false flag.
includeDeclarationAsGiven(arg) == arg.value

\* const { file, line, column, includeDeclaration = true } = args
includeDeclaration(arg) == IF arg.given THEN arg.value ELSE TRUE

\* The params of references(uri, line, character, includeDeclaration).
ReferencesParams(uri, line, character, include) ==
    [textDocument |-> [uri |-> uri],
     position |-> [line |-> line, character |-> character],
     context |-> [includeDeclaration |-> include]]

\* A position tool called with (file, line, column) and, for swift-references,
\* the includeDeclaration argument: the uri it passes to openFile and the
\* request it has the client send.
TranslateCall(tool, file, line, column, arg) ==
    /\ io = NoIo
    /\ LET uri == FileUri(file)
           pos == ToolPosition(line, column)
       IN  io' = [kind |-> "request", tool |-> tool, file |-> file, line |-> line,
                  column |-> column, include |-> arg, opened |-> uri,
                  method |-> QueryMethod(tool),
                  params |-> IF tool = "swift-references"
                             THEN ReferencesParams(uri, pos.line, pos.character,
                                                   includeDeclaration(arg))
                             ELSE PositionParams(uri, pos.line, pos.character)]
    /\ UNCHANGED <<host, startPc, mcpUp, proc, conn, nextId, pending, wire, openFiles,
                   diagnosticsCache, fs, ops, stops, latest, edits>>

\* The same called with (file, line, column) alone.
Translate(tool, file, line, column) == TranslateCall(tool, file, line, column, OmittedArg)

\* ------------------------------------------------- rendering of results
\* The replies drawn for the renderers.
Lines0 == 0..(MaxPos - 1)
SeqsUpTo(S, n) == UNION {[1..k -> S] : k \in 0..n}

Locations == [uri : Uris, line : Lines0, character : Lines0]
SymbolInfos ==
    [name : {"foo"}, kind : {5, 12, 27}, containerName : {"", "Bar"}, uri : Uris,
     line : Lines0]
Diagnostics ==
    [line : Lines0, character : Lines0, severity : 0..4, message : {"m"},
     source : {"sourcekit"}]
Fragments == {"", "A", "B"}
MarkedStrings == [shape : {"string", "marked"}, value : Fragments]

\* Location[] | null
ListResults(S) ==
    {[null |-> TRUE, items |-> << >>]}
      \cup {[null |-> FALSE, items |-> q] : q \in SeqsUpTo(S, MaxItems)}

\* Location | Location[] | null
DefinitionResults ==
    {[shape |-> "null", items |-> << >>]}
      \cup {[shape |-> "single", items |-> <<l>>] : l \in Locations}
      \cup {[shape |-> "list", items |-> q] : q \in SeqsUpTo(Locations, MaxItems)}

\* Hover | null, with contents: string | MarkupContent | MarkedString |
\* MarkedString[] (or missing)
HoverResults ==
    {[shape |-> "null", value |-> "", items |-> << >>],
     [shape |-> "absent", value |-> "", items |-> << >>]}
      \cup {[shape |-> sh, value |-> v, items |-> << >>] :
              sh \in {"string", "markup", "marked"}, v \in Fragments}
      \cup {[shape |-> "list", value |-> "", items |-> q] :
              q \in SeqsUpTo(MarkedStrings, MaxItems)}

\* Array.prototype.join
Join(seq, sep) ==
    LET f[i \in 0..Len(seq)] ==
            IF i = 0 THEN ""
            ELSE IF i = 1 THEN seq[1]
            ELSE f[i - 1] \o sep \o seq[i]
    IN  f[Len(seq)]

\* items.map(x => `- ${x}`).join('\n')
Bullets(seq) == Join([i \in 1..Len(seq) |-> "- " \o seq[i]], "\n")

\* the plural "s" of the headers
Plural(n) == IF n = 1 THEN "" ELSE "s"

\* URI.parse(uri).fsPath
FsPath(uri) == CHOOSE f \in Files : FileUri(f) = uri

\* Fault: a renderer that prints the reply's 0-based position as it is.
LocationTextRaw(loc) ==
    FsPath(loc.uri) \o ":" \o ToString(loc.line) \o ":" \o ToString(loc.character)

\* `${filePath}:${startLine}:${startChar}` of definition.ts and references.ts
LocationText(loc) ==
    FsPath(loc.uri) \o ":" \o ToString(loc.line + 1) \o ":" \o ToString(loc.character + 1)

\* references.ts: the text for the result of lspClient.references
RenderReferences(result) ==
    IF result.null \/ Len(result.items) = 0
    THEN "No references found for this symbol"
    ELSE LET references == [i \in 1..Len(result.items) |-> LocationText(result.items[i])]
             n == Len(references)
         IN  "Found " \o ToString(n) \o " reference" \o Plural(n) \o ":\n"
               \o Bullets(references)

\* definition.ts: the text for the result of lspClient.definition
RenderDefinition(result) ==
    IF result.shape = "null" \/ Len(result.items) = 0
    THEN "No definition found at this position"
    ELSE LET definitions == [i \in 1..Len(result.items) |-> LocationText(result.items[i])]
         IN  IF Len(definitions) = 1
             THEN "Definition found at: " \o definitions[1]
             ELSE "Multiple definitions found:\n" \o Bullets(definitions)

\* symbols.ts: symbolKindToString
SymbolKindNames ==
    <<"File", "Module", "Namespace", "Package", "Class", "Method", "Property", "Field",
      "Constructor", "Enum", "Interface", "Function", "Variable", "Constant", "String",
      "Number", "Boolean", "Array", "Object", "Key", "Null", "EnumMember", "Struct",
      "Event", "Operator", "TypeParameter">>

symbolKindToString(kind) ==
    IF kind \in DOMAIN SymbolKindNames THEN SymbolKindNames[kind] ELSE "Unknown"

\* symbols.ts: the line of one symbol
SymbolText(symbol) ==
    symbol.name \o " (" \o symbolKindToString(symbol.kind) \o ")"
      \o (IF symbol.containerName # "" THEN " in " \o symbol.containerName ELSE "")
      \o " - " \o FsPath(symbol.uri) \o ":" \o ToString(symbol.line + 1)

\* symbols.ts: the text for the result of lspClient.workspaceSymbols(query)
RenderSymbols(result, query) ==
    IF result.null \/ Len(result.items) = 0
    THEN "No symbols found matching \"" \o query \o "\""
    ELSE LET symbols == [i \in 1..Len(result.items) |-> SymbolText(result.items[i])]
             n == Len(symbols)
         IN  "Found " \o ToString(n) \o " symbol" \o Plural(n) \o " matching \""
               \o query \o "\":\n" \o Bullets(symbols)

\* diagnostics.ts: severityToString; 0 stands for a missing severity
severityToString(severity) ==
    CASE severity = 1 -> "Error"
      [] severity = 2 -> "Warning"
      [] severity = 3 -> "Info"
      [] severity = 4 -> "Hint"
      [] OTHER -> "Unknown"

\* diagnostics.ts line 64: the label of a diagnostic's line,
\* severityToString(diagnostic.severity || DiagnosticSeverity.Error); severity
\* 0 stands for an absent severity.
SeverityLabel(d) == severityToString(IF d.severity = 0 THEN 1 ELSE d.severity)

\* diagnostics.ts lines 72-77: the three groups the summary counts.
ErrorCount(diagnostics) ==
    Cardinality({i \in DOMAIN diagnostics : diagnostics[i].severity = 1})
WarningCount(diagnostics) ==
    Cardinality({i \in DOMAIN diagnostics : diagnostics[i].severity = 2})
OtherCount(diagnostics) ==
    Cardinality({i \in DOMAIN diagnostics : diagnostics[i].severity \notin {1, 2}})

\* diagnostics.ts: the line of one diagnostic
DiagnosticText(d) ==
    SeverityLabel(d)
      \o " at " \o ToString(d.line + 1) \o ":" \o ToString(d.character + 1)
      \o ": " \o d.message
      \o (IF d.source # "" THEN " [" \o d.source \o "]" ELSE "")

\* diagnostics.ts: the summary by severity
DiagnosticsSummary(diagnostics) ==
    LET errors == ErrorCount(diagnostics)
        warnings == WarningCount(diagnostics)
        others == OtherCount(diagnostics)
        s1 == IF errors > 0 THEN ToString(errors) \o " error" \o Plural(errors) ELSE ""
        s2 == IF warnings > 0
              THEN s1 \o (IF s1 # "" THEN ", " ELSE "")
                      \o ToString(warnings) \o " warning" \o Plural(warnings)
              ELSE s1
    IN  IF others > 0
        THEN s2 \o (IF s2 # "" THEN ", " ELSE "")
                \o ToString(others) \o " other" \o Plural(others)
        ELSE s2

\* diagnostics.ts: the text for the cached diagnostics of the file
RenderDiagnostics(diagnostics) ==
    IF Len(diagnostics) = 0
    THEN "No diagnostics (errors or warnings) found for this file"
    ELSE LET diagnosticLines == [i \in 1..Len(diagnostics) |-> DiagnosticText(diagnostics[i])]
             n == Len(diagnostics)
         IN  "Found " \o ToString(n) \o " diagnostic" \o Plural(n) \o " ("
               \o DiagnosticsSummary(diagnostics) \o "):\n" \o Bullets(diagnosticLines)

\* Fault: a hover tool that returns the text it built without the fallback
\* of line 62.
RenderHoverNoFallback(result) ==
    IF result.shape \in {"null", "absent"} \/ (result.shape = "string" /\ result.value = "")
    THEN "No type information available at this position"
    ELSE IF result.shape \in {"string", "markup"} THEN result.value
    ELSE IF result.shape = "list"
    THEN Join([i \in 1..Len(result.items) |-> result.items[i].value], "\n")
    ELSE ""

\* hover.ts: the text for the result of lspClient.hover. A single
\* { language, value } object is no string, has no "kind" and is no array:
\* none of the three branches takes it and text stays ''.
RenderHover(result) ==
    IF result.shape \in {"null", "absent"} \/ (result.shape = "string" /\ result.value = "")
    THEN "No type information available at this position"
    ELSE LET text ==
                 IF result.shape = "string" THEN result.value
                 ELSE IF result.shape = "markup" THEN result.value
                 ELSE IF result.shape = "list"
                 THEN Join([i \in 1..Len(result.items) |-> result.items[i].value], "\n")
                 ELSE ""
         IN  IF text # "" THEN text ELSE "No type information available"

\* A tool renders the reply it received.
Render(kind, result, text) ==
    /\ io = NoIo
    /\ io' = [kind |-> kind, result |-> result, text |-> text]
    /\ UNCHANGED <<host, startPc, mcpUp, proc, conn, nextId, pending, wire, openFiles,
                   diagnosticsCache, fs, ops, stops, latest, edits>>

\* The handler returns what it computed; the next call starts afresh.
ReturnText ==
    /\ io # NoIo
    /\ io' = NoIo
    /\ UNCHANGED <<host, startPc, mcpUp, proc, conn, nextId, pending, wire, openFiles,
                   diagnosticsCache, fs, ops, stops, latest, edits>>

Queries == {"foo"}

\* The tools' translation and rendering, applied to every request and reply
\* drawn.
NextRender ==
    \/ /\ io = NoIo
       /\ \E tool \in PositionTools, file \in Files, line \in 1..MaxPos, column \in 1..MaxPos :
             Translate(tool, file, line, column)
    \/ /\ io = NoIo
       /\ \E file \in Files, line \in 1..MaxPos, column \in 1..MaxPos, arg \in GivenArgs :
             TranslateCall("swift-references", file, line, column, arg)
    \/ /\ io = NoIo
       /\ \E r \in ListResults(Locations) : Render("references", r, RenderReferences(r))
    \/ /\ io = NoIo
       /\ \E r \in DefinitionResults : Render("definition", r, RenderDefinition(r))
    \/ /\ io = NoIo
       /\ \E r \in ListResults(SymbolInfos), q \in Queries :
             Render("symbols", r, RenderSymbols(r, q))
    \/ /\ io = NoIo
       /\ \E d \in SeqsUpTo(Diagnostics, MaxItems) :
             Render("diagnostics", d, RenderDiagnostics(d))
    \/ /\ io = NoIo
       /\ \E r \in HoverResults : Render("hover", r, RenderHover(r))
    \/ ReturnText

SpecRender == Init /\ [][NextRender]_vars

\* connect() under every environment drawn.
NextSpawn ==
    \/ /\ io = NoIo
       /\ \E path \in LspPaths, args \in BuildArgStrings, root \in WorkspaceRoots :
             Spawn(path, args, root)
    \/ ReturnText

SpecSpawn == Init /\ [][NextSpawn]_vars

\* ------------------------------------------------------------------- Next
\* The server as main() runs it, with a subprocess that answers, may die, and
\* pushes no diagnostics (SpecDiag adds those).
Next ==
    \/ Connect
    \/ \E o \in OpIds, tool \in ToolNames, file \in Files : CallTool(o, tool, file)
    \/ \E o \in OpIds : ReadFileDone(o)
    \/ \E o \in OpIds : NotifyDone(o)
    \/ \E o \in OpIds : Settle(o)
    \/ \E r \in pending, ok \in BOOLEAN : Reply(r, ok)
    \/ ProcessExit
    \/ \E file \in Files, content \in Contents \cup {Missing} : EditFile(file, content)
    \/ \E s \in StopIds : Signal(s)

Spec == Init /\ [][Next]_vars

\* The server's tool calls alone: no signal arrives and no file changes.
NextTools ==
    \/ Connect
    \/ \E o \in OpIds, tool \in ToolNames, file \in Files : CallTool(o, tool, file)
    \/ \E o \in OpIds : ReadFileDone(o)
    \/ \E o \in OpIds : NotifyDone(o)
    \/ \E o \in OpIds : Settle(o)
    \/ \E r \in pending, ok \in BOOLEAN : Reply(r, ok)
    \/ ProcessExit

SpecTools == Init /\ [][NextTools]_vars

\* The server started with an executable that may or may not be launchable.
NextLaunch ==
    \/ Connect
    \/ ConnectSpawnError
    \/ \E o \in OpIds, tool \in ToolNames, file \in Files : CallTool(o, tool, file)
    \/ \E o \in OpIds : ReadFileDone(o)
    \/ \E o \in OpIds : NotifyDone(o)
    \/ \E o \in OpIds : Settle(o)
    \/ \E r \in pending, ok \in BOOLEAN : Reply(r, ok)
    \/ ProcessExit

SpecLaunch == Init /\ [][NextLaunch]_vars

\* The server's CallToolRequest handler given any tool name and any arguments.
NextCalls ==
    \/ Connect
    \/ \E o \in OpIds :
          /\ ops[o].pc = "idle"
          /\ \E name \in CallNames, args \in ToolArgs : CallToolRequest(o, name, args)
    \/ \E o \in OpIds : ReadFileDone(o)
    \/ \E o \in OpIds : NotifyDone(o)
    \/ \E o \in OpIds : Settle(o)
    \/ \E r \in pending, ok \in BOOLEAN : Reply(r, ok)

SpecCalls == Init /\ [][NextCalls]_vars

\* The same on a file system where one of the files does not exist.
InitFiles ==
    /\ host = "running"
    /\ startPc = "new"
    /\ mcpUp = FALSE
    /\ proc = "none"
    /\ conn = "none"
    /\ nextId = 0
    /\ pending = {}
    /\ wire = << >>
    /\ openFiles = EmptyMap
    /\ diagnosticsCache = EmptyMap
    /\ fs = [f \in Files |-> IF f = "/b.swift" THEN Missing ELSE "let x = 1"]
    /\ ops = [o \in OpIds |-> IdleOp]
    /\ stops = [s \in StopIds |-> "idle"]
    /\ latest = EmptyMap
    /\ edits = 0
    /\ io = NoIo

SpecFiles == InitFiles /\ [][NextTools]_vars

\* The server with swift-diagnostics calls only, and a subprocess that pushes
\* diagnostics at any time.
NextDiag ==
    \/ Connect
    \/ \E o \in OpIds, file \in Files : CallTool(o, "swift-diagnostics", file)
    \/ \E o \in OpIds : ReadFileDone(o)
    \/ \E o \in OpIds : NotifyDone(o)
    \/ \E o \in OpIds : Settle(o)
    \/ \E r \in pending, ok \in BOOLEAN : Reply(r, ok)
    \/ ProcessExit
    \/ \E uri \in Uris, d \in DiagLists : PublishDiagnostics(uri, d)

SpecDiag == Init /\ [][NextDiag]_vars

\* The client driven through its public methods by any caller, as its unit
\* tests drive it.
NextClient ==
    \/ ClientConnect
    \/ \E o \in OpIds, uri \in Uris, content \in Contents : ClientOpenFile(o, uri, content)
    \/ \E o \in OpIds, uri \in Uris : ClientCloseFile(o, uri)
    \/ \E o \in OpIds, fn \in ClientQueries, uri \in Uris : ClientQuery(o, fn, uri)
    \/ \E o \in OpIds, uri \in Uris : ClientGetDiagnostics(o, uri)
    \/ \E s \in StopIds : ClientShutdown(s)
    \/ \E o \in OpIds : NotifyDone(o)
    \/ \E r \in pending, ok \in BOOLEAN : Reply(r, ok)
    \/ ProcessExit

SpecClient == Init /\ [][NextClient]_vars

\* The client's document synchronisation alone: openFile and closeFile calls on
\* a connection that is being set up, is live, or has lost its subprocess.
NextSync ==
    \/ ClientConnect
    \/ \E o \in OpIds, uri \in Uris, content \in Contents : ClientOpenFile(o, uri, content)
    \/ \E o \in OpIds, uri \in Uris : ClientCloseFile(o, uri)
    \/ \E o \in OpIds : NotifyDone(o)
    \/ \E r \in pending, ok \in BOOLEAN : Reply(r, ok)
    \/ ProcessExit

SpecSync == Init /\ [][NextSync]_vars

\* The same on a client that is connected and has /a.swift open: the state
\* after connect() and openFile("file:///a.swift", "let x = 1") have returned.
InitOpened ==
    /\ host = "running"
    /\ startPc = "connected"
    /\ mcpUp = FALSE
    /\ proc = "running"
    /\ conn = "listening"
    /\ nextId = 1
    /\ pending = {}
    /\ wire = <<[kind |-> "request", id |-> 0, method |-> "initialize", uri |-> NoUri,
                 version |-> 0, text |-> NoText, tracked |-> FALSE],
                [kind |-> "notification", id |-> -1, method |-> "initialized", uri |-> NoUri,
                 version |-> 0, text |-> NoText, tracked |-> FALSE],
                [kind |-> "notification", id |-> -1, method |-> "textDocument/didOpen",
                 uri |-> "file:///a.swift", version |-> 1, text |-> "let x = 1",
                 tracked |-> FALSE]>>
    /\ openFiles = OpenFileSet(EmptyMap, "file:///a.swift", 1, "let x = 1")
    /\ diagnosticsCache = EmptyMap
    /\ fs = [f \in Files |-> "let x = 1"]
    /\ ops = [o \in OpIds |-> IdleOp]
    /\ stops = [s \in StopIds |-> "idle"]
    /\ latest = EmptyMap
    /\ edits = 0
    /\ io = NoIo

NextOpened ==
    \/ \E o \in OpIds, uri \in Uris, content \in Contents : ClientOpenFile(o, uri, content)
    \/ \E o \in OpIds, uri \in Uris : ClientCloseFile(o, uri)
    \/ \E o \in OpIds : NotifyDone(o)
    \/ ProcessExit

SpecOpened == InitOpened /\ [][NextOpened]_vars

\* The client's requests and its shutdown alone: query calls (one method with
\* a document uri, one without) and shutdown() calls in any order on one
\* connection.
StopQueries == {"hover", "workspaceSymbols"}

NextStop ==
    \/ ClientConnect
    \/ \E o \in OpIds, fn \in StopQueries, uri \in Uris : ClientQuery(o, fn, uri)
    \/ \E s \in StopIds : ClientShutdown(s)
    \/ \E r \in pending, ok \in BOOLEAN : Reply(r, ok)
    \/ ProcessExit

SpecStop == Init /\ [][NextStop]_vars

\* The client connected, and connected again, by its caller, with queries made
\* at any point in between.
NextConnect ==
    \/ ClientConnect
    \/ ClientReconnect
    \/ \E o \in OpIds, fn \in StopQueries, uri \in Uris : ClientQuery(o, fn, uri)
    \/ \E r \in pending, ok \in BOOLEAN : Reply(r, ok)
    \/ ProcessExit

SpecConnect == Init /\ [][NextConnect]_vars

\* ------------------------------------------------------------ properties
Sent(method, uri) ==
    {i \in DOMAIN wire : wire[i].method = method /\ wire[i].uri = uri}

\* Operation o makes its call in this step / the awaited write of operation o's
\* notification completes in this step.
Calls(o, fn) == ops[o].pc = "idle" /\ ops'[o].pc # "idle" /\ ops'[o].tool = fn
Completes(o, fn) == ops[o].pc = "awaitNotify" /\ ops[o].tool = fn /\ ops'[o].pc = "done"

\* C1 -- Idempotent open. A call openFile(u, c) that finds no entry for u on a
\* live connection writes exactly one message, a didOpen for u with version 1
\* and text c, and on completion stores (1, c). A call openFile(u, c) that
\* finds the entry of u holding content c writes nothing, leaves the tracker as
\* it is and returns: repeating the call any number of times adds no didOpen
\* and no didChange.
C1_IdempotentOpen ==
    [][\A o \in OpIds :
        /\ (Calls(o, "openFile") /\ ops'[o].uri \notin DOMAIN openFiles /\ CanSend)
              => /\ Len(wire') = Len(wire) + 1
                 /\ SubSeq(wire', 1, Len(wire)) = wire
                 /\ wire'[Len(wire')].method = "textDocument/didOpen"
                 /\ wire'[Len(wire')].uri = ops'[o].uri
                 /\ wire'[Len(wire')].version = 1
                 /\ wire'[Len(wire')].text = ops'[o].content
        /\ (Completes(o, "openFile") /\ ops[o].version = 1)
              => openFiles'[ops[o].uri] = [version |-> 1, content |-> ops[o].content]
        /\ (Calls(o, "openFile") /\ ops'[o].uri \in DOMAIN openFiles
                /\ openFiles[ops'[o].uri].content = ops'[o].content)
              => /\ wire' = wire
                 /\ openFiles' = openFiles
                 /\ ops'[o].pc = "done"
                 /\ ops'[o].res = "returned"
    ]_vars

\* C1 witness: openFile(u, c) was called twice in sequence, both calls have
\* returned, and the wire holds one didOpen for u and no didChange.
C1_Witness ==
    /\ ops[1].tool = "openFile" /\ ops[1].pc = "done" /\ ops[1].res = "returned"
    /\ ops[2].tool = "openFile" /\ ops[2].pc = "done" /\ ops[2].res = "returned"
    /\ ops[1].uri = ops[2].uri
    /\ ops[1].content = ops[2].content
    /\ Cardinality(Sent("textDocument/didOpen", ops[1].uri)) = 1
    /\ Sent("textDocument/didChange", ops[1].uri) = {}
    /\ ops[1].uri \in DOMAIN openFiles
    /\ openFiles[ops[1].uri] = [version |-> 1, content |-> ops[1].content]

\* C2 -- Re-open with changed content. A call openFile(u, c') on a live
\* connection that finds u tracked at version v with content c # c' writes
\* exactly one message, a didChange for u carrying version v + 1 and the full
\* text c' (no didOpen), and on completion the tracker holds (v + 1, c').
C2_ReopenChanged ==
    [][\A o \in OpIds :
        /\ (Calls(o, "openFile") /\ ops'[o].uri \in DOMAIN openFiles
                /\ openFiles[ops'[o].uri].content # ops'[o].content /\ CanSend)
              => /\ Len(wire') = Len(wire) + 1
                 /\ SubSeq(wire', 1, Len(wire)) = wire
                 /\ wire'[Len(wire')].method = "textDocument/didChange"
                 /\ wire'[Len(wire')].uri = ops'[o].uri
                 /\ wire'[Len(wire')].version = openFiles[ops'[o].uri].version + 1
                 /\ wire'[Len(wire')].text = ops'[o].content
                 /\ ops'[o].pc = "awaitNotify"
                 /\ ops'[o].version = openFiles[ops'[o].uri].version + 1
        /\ Completes(o, "openFile")
              => openFiles'[ops[o].uri] =
                    [version |-> ops[o].version, content |-> ops[o].content]
    ]_vars

\* C2 witness: u was opened with one content and re-opened with another; the
\* wire holds one didOpen and one didChange (version 2, the new text) for u,
\* and the tracker holds version 2 with the new text.
C2_Witness ==
    /\ ops[1].tool = "openFile" /\ ops[1].pc = "done" /\ ops[1].res = "returned"
    /\ ops[2].tool = "openFile" /\ ops[2].pc = "done" /\ ops[2].res = "returned"
    /\ ops[1].uri = ops[2].uri
    /\ ops[1].content # ops[2].content
    /\ Cardinality(Sent("textDocument/didOpen", ops[2].uri)) = 1
    /\ \E i \in DOMAIN wire :
          /\ Sent("textDocument/didChange", ops[2].uri) = {i}
          /\ wire[i].version = 2
          /\ wire[i].text = ops[2].content
    /\ ops[2].uri \in DOMAIN openFiles
    /\ openFiles[ops[2].uri] = [version |-> 2, content |-> ops[2].content]

PositionMethods == {QueryMethod(t) : t \in PositionTools}
QueryTools == PositionTools \cup {"swift-symbols"}
DocumentMethods == {"textDocument/didOpen", "textDocument/didChange", "textDocument/didClose"}

\* C3 -- Open before query. Every hover, definition or references request on
\* the wire for a uri u was written while the tracker held an entry for u, and
\* is preceded on the wire by a didOpen for u with no didClose for u between
\* the two.
C3_OpenBeforeQuery ==
    \A i \in DOMAIN wire :
        (wire[i].kind = "request" /\ wire[i].method \in PositionMethods)
          => /\ wire[i].tracked
             /\ \E j \in 1..(i - 1) :
                   /\ wire[j].method = "textDocument/didOpen"
                   /\ wire[j].uri = wire[i].uri
                   /\ \A k \in (j + 1)..(i - 1) :
                         ~(wire[k].method = "textDocument/didClose"
                             /\ wire[k].uri = wire[i].uri)

\* C3 witness: two position requests for the same uri are on the wire, the
\* second one sent by a tool call that found the file already open.
C3_Witness ==
    \E i, j \in DOMAIN wire :
        /\ i < j
        /\ wire[i].method \in PositionMethods
        /\ wire[j].method \in PositionMethods
        /\ wire[i].uri = wire[j].uri
        /\ Cardinality(Sent("textDocument/didOpen", wire[i].uri)) = 1

\* C4 -- Handshake gate. Every request other than initialize, and every
\* document notification, is written in a state where the session is Ready;
\* and a tool call is accepted only after connect() has succeeded.
C4_HandshakeGate ==
    [][/\ \A i \in (Len(wire) + 1)..Len(wire') :
             ((wire'[i].kind = "request" /\ wire'[i].method # "initialize")
                \/ wire'[i].method \in DocumentMethods)
               => ConnectionState = "Ready"
       /\ \A o \in OpIds :
             (ops[o].pc = "idle" /\ ops'[o].pc # "idle") => startPc = "started"
    ]_vars

C6_LastWriteWins ==
    /\ [](\A u \in Uris :
            u \in DOMAIN latest => getDiagnostics(diagnosticsCache, u) = latest[u])
    /\ [][\A u \in Uris :
            (u \in DOMAIN latest' /\ (u \in DOMAIN latest => latest'[u] # latest[u]))
              => \A w \in Uris \ {u} :
                    getDiagnostics(diagnosticsCache', w) = getDiagnostics(diagnosticsCache, w)
         ]_vars

\* C6 witness: a diagnostics call reported a non-empty list for u, u has since
\* received a different non-empty list, and the other uri holds its own list.
C6_Witness ==
    \E o \in OpIds, w \in Uris :
        /\ ops[o].pc = "done" /\ ops[o].tool = "swift-diagnostics" /\ ops[o].res = "ok"
        /\ ops[o].uri \in DOMAIN diagnosticsCache
        /\ diagnosticsCache[ops[o].uri] # << >>
        /\ diagnosticsCache[ops[o].uri] # ops[o].diag
        /\ w # ops[o].uri
        /\ w \in DOMAIN diagnosticsCache
        /\ diagnosticsCache[w] # diagnosticsCache[ops[o].uri]

\* C7 -- For a uri for which no publishDiagnostics notification was ever
\* received, getDiagnostics(uri) is the empty sequence, and so is what a
\* diagnostics call for it read.
C7_NeverSeenIsEmpty ==
    /\ \A u \in Uris :
          u \notin DOMAIN latest => getDiagnostics(diagnosticsCache, u) = << >>
    /\ \A o \in OpIds :
          (ops[o].pc = "done" /\ ops[o].tool = "swift-diagnostics"
              /\ ops[o].res \in {"ok", "nothing"} /\ ops[o].uri \notin DOMAIN latest)
            => (ops[o].diag = << >> /\ ops[o].res = "nothing")

\* C7 witness: a diagnostics call for a never-seen uri has returned while the
\* other uri holds a non-empty list.
C7_Witness ==
    \E o \in OpIds, w \in Uris :
        /\ ops[o].pc = "done" /\ ops[o].tool = "swift-diagnostics"
        /\ ops[o].res = "nothing"
        /\ ops[o].uri \notin DOMAIN latest
        /\ w \in DOMAIN latest
        /\ latest[w] # << >>

\* C8 -- Unexpected exit fails pending work. Once the subprocess has exited on
\* its own the session is Terminated, and every tool call still awaiting a
\* reply can complete: some step of the program ends it with an error result.
C8_ExitFailsPending ==
    \A o \in OpIds :
        (proc = "exited" /\ ops[o].pc = "awaitReply")
          => /\ ConnectionState = "Terminated"
             /\ ENABLED (Next /\ ops'[o].pc = "done")

\* C9 -- Fail fast after a fatal error. Every tool call made after the
\* subprocess exited on its own ends with the connection-closed error (or with
\* file-not-found, found before the client is touched), and writes nothing.
C9_FailFast ==
    /\ \A o \in OpIds :
          (ops[o].pc = "done" /\ ops[o].born = "Terminated")
            => ops[o].res \in {"connectionClosed", "fileNotFound"}
    /\ \A o \in OpIds :
          (ops[o].pc # "idle" /\ ops[o].born = "Terminated")
            => ops[o].pc \notin {"awaitNotify", "awaitReply"}

\* C10 -- Shutdown is terminal. After shutdown() has completed the subprocess
\* is not running, and every openFile, closeFile, hover, definition,
\* references or workspaceSymbols call made from then on fails with the
\* connection-closed error.
C10_ShutdownTerminal ==
    /\ (\E s \in StopIds : stops[s] = "done") => proc # "running"
    /\ \A o \in OpIds :
          (ops[o].pc = "done" /\ ops[o].born = "Shutdown"
              /\ ops[o].tool \in ClientQueries \cup {"openFile", "closeFile"})
            => ops[o].res = "connectionClosed"

\* C11 -- Shutdown protocol order. A shutdown request is written only when the
\* session is Ready; the exit notification is written only in the step in
\* which the reply to a shutdown request arrives; the subprocess is killed
\* only after the exit notification was written; and a completed shutdown
\* leaves the session Terminated.
C11_ShutdownOrder ==
    /\ [][\A i \in (Len(wire) + 1)..Len(wire') :
             /\ wire'[i].method = "shutdown" => ConnectionState = "Ready"
             /\ wire'[i].method = "exit"
                   => \E p \in pending : p.method = "shutdown" /\ p \notin pending'
         ]_vars
    /\ [](proc = "killed" => \E i \in DOMAIN wire : wire[i].method = "exit")
    /\ []((\E s \in StopIds : stops[s] = "done") => ConnectionState = "Terminated")

TextResults ==
    {"ok", "nothing", "fileNotFound", "connectionClosed", "typeError", "rejected",
     "remoteError"}

\* C13 -- No exception escapes a tool operation. Every tool call that has
\* ended returned a non-empty text, and after a failure the text is the tool's
\* rendering of the cause; every tool call in progress in the running host can
\* take its next step, so that each failure path ends in such a text; and the
\* host ends only through a failed start or a completed stop, never through a
\* tool call.
C13_NoExceptionEscapes ==
    /\ \A o \in OpIds :
          (ops[o].pc = "done" /\ ops[o].tool \in ToolNames)
            => /\ ops[o].res \in TextResults
               /\ ops[o].text \notin {"", "-"}
               /\ ops[o].res \notin {"ok", "nothing"}
                     => \E msg \in {"File not found: /a.swift", "File not found: /b.swift",
                                     ErrorMessage("connectionClosed", "-"),
                                     ErrorMessage("typeError", "-"),
                                     ErrorMessage("rejected", "-"),
                                     ErrorMessage("remoteError", "-")} :
                           ops[o].text = FailPrefix(ops[o].tool) \o msg
    /\ \A o \in OpIds :
          (host = "running" /\ ops[o].pc \notin {"idle", "done"})
            => ENABLED (Next /\ ops'[o] # ops[o])
    /\ host = "exited" => (startPc = "failed" \/ \E s \in StopIds : stops[s] = "done")

\* C14 -- Missing file. When the read of a position or diagnostics call fails
\* with ENOENT, the call ends in that step with a text that contains
\* "File not found: <path>", and the step writes nothing to the subprocess,
\* registers no request and leaves the tracker as it is.
C14_MissingFile ==
    [][\A o \in OpIds :
        (ops[o].pc = "readFile" /\ fs[ops[o].file] = Missing /\ ops'[o] # ops[o])
          => /\ ops'[o].pc = "done"
             /\ \E t \in ToolNames :
                   ops'[o].text = FailPrefix(t) \o "File not found: " \o ops[o].file
             /\ wire' = wire
             /\ pending' = pending
             /\ openFiles' = openFiles
    ]_vars

\* C14 witness: a call on the missing file has ended with the file-not-found
\* text, nothing was written for its uri and the tracker has no entry for it,
\* while a call on the existing file went through.
C14_Witness ==
    \E o, k \in OpIds :
        /\ ops[o].pc = "done" /\ ops[o].res = "fileNotFound"
        /\ ops[o].text = FailPrefix(ops[o].tool) \o "File not found: /b.swift"
        /\ \A i \in DOMAIN wire : wire[i].uri # ops[o].uri
        /\ ops[o].uri \notin DOMAIN openFiles
        /\ ops[k].pc = "done" /\ ops[k].res = "ok"

OneBased(line, character) == ToString(line + 1) \o ":" \o ToString(character + 1)

\* C16: a reply with n >= 1 located entries is rendered as exactly n entries
\* in the reply's order, each with the entry's line and character plus one,
\* under a header whose count (where it prints one) is n. The symbol search
\* prints the line only.
C16_OutboundTranslation ==
    /\ (io.kind \in {"references", "definition"} /\ Len(io.result.items) >= 1)
         => LET items == io.result.items
                n == Len(items)
                entries == [i \in 1..n |-> FsPath(items[i].uri) \o ":"
                                             \o OneBased(items[i].line, items[i].character)]
            IN  io.text =
                  IF io.kind = "references"
                  THEN "Found " \o ToString(n) \o " reference" \o Plural(n) \o ":\n"
                         \o Join([i \in 1..n |-> "- " \o entries[i]], "\n")
                  ELSE IF n = 1 THEN "Definition found at: " \o entries[1]
                  ELSE "Multiple definitions found:\n"
                         \o Join([i \in 1..n |-> "- " \o entries[i]], "\n")
    /\ (io.kind = "symbols" /\ Len(io.result.items) >= 1)
         => LET items == io.result.items
                n == Len(items)
                entries == [i \in 1..n |->
                              items[i].name \o " (" \o symbolKindToString(items[i].kind) \o ")"
                                \o (IF items[i].containerName # ""
                                    THEN " in " \o items[i].containerName ELSE "")
                                \o " - " \o FsPath(items[i].uri) \o ":"
                                \o ToString(items[i].line + 1)]
            IN  io.text = "Found " \o ToString(n) \o " symbol" \o Plural(n)
                            \o " matching \"foo\":\n"
                            \o Join([i \in 1..n |-> "- " \o entries[i]], "\n")
    /\ (io.kind = "diagnostics" /\ Len(io.result) >= 1)
         => LET items == io.result
                n == Len(items)
                entries == [i \in 1..n |->
                              severityToString(IF items[i].severity = 0 THEN 1
                                               ELSE items[i].severity)
                                \o " at " \o OneBased(items[i].line, items[i].character)
                                \o ": " \o items[i].message
                                \o (IF items[i].source # ""
                                    THEN " [" \o items[i].source \o "]" ELSE "")]
            IN  io.text = "Found " \o ToString(n) \o " diagnostic" \o Plural(n) \o " ("
                            \o DiagnosticsSummary(items) \o "):\n"
                            \o Join([i \in 1..n |-> "- " \o entries[i]], "\n")

\* C16 witness: two references, the second at 0-based (1, 0) of /b.swift,
\* printed in order as 1:1 and 2:1 under "Found 2 references".
C16_Witness ==
    /\ io.kind = "references"
    /\ ~io.result.null
    /\ io.result.items = <<[uri |-> "file:///a.swift", line |-> 0, character |-> 0],
                           [uri |-> "file:///b.swift", line |-> 1, character |-> 0]>>
    /\ io.text = "Found 2 references:\n- /a.swift:1:1\n- /b.swift:2:1"

\* The fragments of a hover reply, in the reply's order.
HoverFragments(result) ==
    IF result.shape \in {"string", "markup", "marked"} THEN <<result.value>>
    ELSE IF result.shape = "list"
    THEN [i \in 1..Len(result.items) |-> result.items[i].value]
    ELSE << >>

\* A reply that carries nothing: null, an empty list, no hover contents, or
\* hover contents that are the empty list or one empty text.
NothingFound(kind, result) ==
    CASE kind \in {"references", "symbols"} -> result.null \/ Len(result.items) = 0
      [] kind = "definition" -> result.shape = "null" \/ Len(result.items) = 0
      [] kind = "diagnostics" -> Len(result) = 0
      [] kind = "hover" ->
            \/ Len(HoverFragments(result)) = 0
            \/ HoverFragments(result) = <<"">>
      [] OTHER -> FALSE

\* The texts the tools return for a reply that carries nothing.
NothingFoundTexts ==
    {"No references found for this symbol",
     "No definition found at this position",
     "No symbols found matching \"foo\"",
     "No diagnostics (errors or warnings) found for this file",
     "No type information available at this position",
     "No type information available"}

RenderKinds == {"references", "definition", "symbols", "diagnostics", "hover"}

\* C17: a successful reply that carries nothing is answered with one of the
\* explanatory "nothing found" texts, and no rendering is ever the empty
\* text.
C17_NothingFound ==
    io.kind \in RenderKinds
      => /\ io.text # ""
         /\ NothingFound(io.kind, io.result) => io.text \in NothingFoundTexts

\* C17 witness: a hover reply whose contents is the empty list is answered
\* with "No type information available".
C17_Witness ==
    /\ io.kind = "hover"
    /\ io.result.shape = "list"
    /\ io.result.items = << >>
    /\ io.text = "No type information available"

\* C18: a hover reply with a non-empty fragment, whatever its shape, is
\* rendered as the text of all its fragments in the reply's order, joined by
\* newlines.
C18_HoverRendering ==
    (io.kind = "hover"
       /\ \E i \in DOMAIN HoverFragments(io.result) : HoverFragments(io.result)[i] # "")
      => io.text = Join(HoverFragments(io.result), "\n")

\* C19 -- The handshake is accepted only once. Over the whole life of the
\* client at most one initialize request is written, that is, at most one
\* subprocess is spawned: a connect() made during the handshake, in Ready or
\* after termination spawns nothing and sends nothing.
C19_SingleHandshake ==
    Cardinality(Sent("initialize", NoUri)) <= 1

\* C20 -- Not-ready operations fail fast. An openFile, closeFile, hover,
\* definition, references or workspaceSymbols call made before connect() has
\* completed successfully has failed by the end of the step that made it: it
\* never waits on a notification or a request it wrote to the subprocess, and
\* it never returns normally.
C20_NotReadyFailFast ==
    \A o \in OpIds :
        (ops[o].pc # "idle" /\ ops[o].born \in {"Unstarted", "Initializing"}
            /\ ops[o].tool \in ClientQueries \cup {"openFile", "closeFile"})
          => /\ ops[o].pc = "done"
             /\ ops[o].res \in {"typeError", "connectionClosed"}

\* C21 -- Spawn failure is reported to the caller. When the executable could
\* not be launched, connect() has failed towards start(): the start-up is in
\* its failed state, not still waiting for the handshake.
C21_SpawnFailureReported ==
    proc = "unlaunched" => startPc = "failed"

\* C22 -- Termination is idempotent. A shutdown() called when the session is
\* already Terminated completes normally, writes nothing and leaves the session
\* Terminated.
C22_TerminationIdempotent ==
    [][\A s \in StopIds :
          (stops[s] = "idle" /\ stops'[s] # "idle" /\ ConnectionState = "Terminated")
            => /\ stops'[s] = "done"
               /\ wire' = wire
               /\ ConnectionState' = "Terminated"
    ]_vars

\* The last document notification written for uri, as an index of the wire;
\* 0 when there is none.
LastDocument(w, uri) ==
    LET I == {i \in DOMAIN w : w[i].method \in DocumentMethods /\ w[i].uri = uri}
    IN  IF I = {} THEN 0 ELSE CHOOSE i \in I : \A j \in I : j <= i

\* C23 -- closeFile. On a connection that takes the notification, a call
\* closeFile(u) writes exactly one message, a didClose for u, whether or not u
\* has an entry; its completion removes the entry of u, changes no other entry
\* and writes nothing, after which getFileVersion(u) is null. An openFile(u, c)
\* called when the last document notification for u is a didClose and u has no
\* entry writes a didOpen at version 1 with text c, whatever the content
\* tracked before the close.
C23_CloseFile ==
    [][\A o \in OpIds :
          /\ (Calls(o, "closeFile") /\ CanSend)
               => /\ wire' = Append(wire, Notification("textDocument/didClose",
                                                       ops'[o].uri, 0, NoText))
                  /\ openFiles' = openFiles
          /\ Completes(o, "closeFile")
               => /\ ops[o].uri \notin DOMAIN openFiles'
                  /\ getFileVersion(openFiles', ops[o].uri) = 0
                  /\ \A u \in Uris \ {ops[o].uri} :
                        /\ (u \in DOMAIN openFiles') = (u \in DOMAIN openFiles)
                        /\ u \in DOMAIN openFiles => openFiles'[u] = openFiles[u]
                  /\ wire' = wire
          /\ (Calls(o, "openFile") /\ CanSend
                /\ ops'[o].uri \notin DOMAIN openFiles
                /\ LastDocument(wire, ops'[o].uri) # 0
                /\ wire[LastDocument(wire, ops'[o].uri)].method = "textDocument/didClose")
               => wire' = Append(wire, Notification("textDocument/didOpen", ops'[o].uri, 1,
                                                    ops'[o].content))
    ]_vars

\* C23 witness: /a.swift was opened with a content, closed, and opened again
\* with the same content: didOpen (1), didClose, didOpen (1) on the wire, and
\* no entry between the close and the second open's completion.
C23_Witness ==
    /\ Len(wire) = 5
    /\ wire[3].method = "textDocument/didOpen" /\ wire[3].uri = "file:///a.swift"
    /\ wire[4].method = "textDocument/didClose" /\ wire[4].uri = "file:///a.swift"
    /\ wire[5].method = "textDocument/didOpen" /\ wire[5].uri = "file:///a.swift"
    /\ wire[5].version = 1 /\ wire[5].text = wire[3].text
    /\ ops[1].tool = "closeFile" /\ ops[1].pc = "done"
    /\ ops[2].tool = "openFile" /\ ops[2].pc = "awaitNotify"
    /\ "file:///a.swift" \notin DOMAIN openFiles

\* The query requests written so far.
QueryRequests ==
    {i \in DOMAIN wire : wire[i].kind = "request"
                           /\ wire[i].method \notin {"initialize", "shutdown"}}

\* C24 -- No automatic retry or restart. The subprocess starts running only in
\* the step in which start() calls connect(), and only one initialize request
\* is ever written; once it has exited it never runs again. A tool call writes
\* at most one request: a step in which a call ends writes no request, a call
\* that has ended does nothing more, and there are never more query requests
\* on the wire than calls made.
C24_NoRetry ==
    /\ [](Cardinality(Sent("initialize", NoUri)) <= 1)
    /\ [](Cardinality(QueryRequests) <= Cardinality({o \in OpIds : ops[o].pc # "idle"}))
    /\ [][/\ (proc # "running" /\ proc' = "running")
               => (startPc = "new" /\ startPc' = "awaitInit")
          /\ proc \in {"exited", "killed"} => proc' = proc
          /\ \A o \in OpIds :
                /\ (ops[o].pc # "done" /\ ops'[o].pc = "done")
                     => \A i \in (Len(wire) + 1)..Len(wire') : wire'[i].kind # "request"
                /\ ops[o].pc = "done" => ops'[o] = ops[o]
       ]_vars

\* C24 witness: the subprocess has exited, a request that was outstanding is
\* lost with it, and a tool call made afterwards has failed on the closed
\* connection; one initialize request and one query request were written.
C24_Witness ==
    /\ proc = "exited"
    /\ ops[1].pc = "awaitReply"
    /\ ops[2].pc = "done" /\ ops[2].res = "connectionClosed" /\ ops[2].born = "Terminated"
    /\ Cardinality(Sent("initialize", NoUri)) = 1
    /\ Cardinality(QueryRequests) = 1

\* A tools/call request the specification refuses: no arguments, an unknown
\* tool, a required argument missing, an argument the tool does not have, a
\* line or column below 1, an empty query.
BadCall(name, args) ==
    \/ ~args.given
    \/ name \notin ToolNames
    \/ \E k \in {"file", "line", "column"} :
          name \in PositionTools /\ k \notin args.keys
    \/ name = "swift-symbols" /\ "query" \notin args.keys
    \/ name = "swift-diagnostics" /\ "file" \notin args.keys
    \/ \E k \in args.keys :
          CASE name \in {"swift-hover", "swift-definition"} -> k \notin {"file", "line", "column"}
            [] name = "swift-references" ->
                  k \notin {"file", "line", "column", "includeDeclaration"}
            [] name = "swift-symbols" -> k # "query"
            [] name = "swift-diagnostics" -> k # "file"
            [] OTHER -> FALSE
    \/ "line" \in args.keys /\ args.line < 1
    \/ "column" \in args.keys /\ args.column < 1
    \/ "query" \in args.keys /\ args.query = ""

\* The texts with which the handler refuses a call.
RefusalTexts ==
    {RefusalText(name, args) : name \in CallNames, args \in ToolArgs} \ {""}

\* C25 -- Argument bounds are enforced before any subprocess traffic. A step
\* in which the handler refuses a call returns one of the refusal texts, writes
\* nothing, registers no request and changes neither the tracker nor any other
\* call; and a step in which the handler runs a tool is not the handling of
\* a call that the specification refuses: every such call is refused.
C25_ValidationFirst ==
    [][\A o \in OpIds :
          (ops[o].pc = "idle" /\ ops'[o].pc # "idle")
            => IF ops'[o].res = "refused"
               THEN /\ ops'[o].pc = "done"
                    /\ ops'[o].text \in RefusalTexts
                    /\ wire' = wire
                    /\ pending' = pending
                    /\ openFiles' = openFiles
                    /\ \A k \in OpIds \ {o} : ops'[k] = ops[k]
               ELSE \A args \in ToolArgs :
                       CallToolRequest(o, ops'[o].tool, args) => ~BadCall(ops'[o].tool, args)
    ]_vars

\* C25 witness: with a first call waiting for its reply, a second call of
\* swift-hover with line 0 was refused; only the first call's messages are on
\* the wire.
C25_Witness ==
    /\ ops[1].pc = "awaitReply"
    /\ ops[2].pc = "done"
    /\ ops[2].tool = "swift-hover"
    /\ ops[2].text = "Validation error: /line must be >= 1"
    /\ Cardinality(QueryRequests) = 1

\* C26 -- includeDeclaration. The textDocument/references request carries the
\* flag the caller gave, and true when the caller gave none.
C26_IncludeDeclaration ==
    (io.kind = "request" /\ io.tool = "swift-references")
      => /\ io.method = "textDocument/references"
         /\ io.include.given => io.params.context.includeDeclaration = io.include.value
         /\ ~io.include.given => io.params.context.includeDeclaration = TRUE

\* C26 witness: a swift-references call without the argument has built a
\* request whose flag is true.
C26_Witness ==
    /\ io.kind = "request" /\ io.tool = "swift-references"
    /\ ~io.include.given
    /\ io.params.context = [includeDeclaration |-> TRUE]

\* The pieces joined by single spaces.
JoinSpaces(pieces) ==
    LET f[i \in 0..Len(pieces)] ==
            IF i = 0 THEN << >>
            ELSE IF i = 1 THEN pieces[1]
            ELSE f[i - 1] \o <<" ">> \o pieces[i]
    IN  f[Len(pieces)]

\* What C27 says of everything but the executable: one spawn, in the
\* workspace root, with three pipes, and with SOURCEKIT_BUILD_ARGS cut at every
\* single space (no piece holds a space, and the pieces joined by single
\* spaces are the variable's value), or no argument when it is unset.
LaunchRest ==
    /\ Len(io.spawn) = 1
    /\ io.spawn[1].cwd = io.root
    /\ io.spawn[1].stdio = <<"pipe", "pipe", "pipe">>
    /\ IF io.args.set
       THEN /\ JoinSpaces(io.spawn[1].args) = io.args.value
            /\ \A i \in DOMAIN io.spawn[1].args :
                  \A j \in DOMAIN io.spawn[1].args[i] : io.spawn[1].args[i][j] # " "
       ELSE io.spawn[1].args = << >>

\* C27 as stated -- Launch configuration, with the executable being the value
\* of SOURCEKIT_LSP_PATH whenever the variable is set.
C27_LaunchAsStated ==
    io.kind = "spawn"
      => /\ LaunchRest
         /\ io.spawn[1].command = IF io.path.set THEN io.path.value ELSE "sourcekit-lsp"

\* C27 amended -- Launch configuration, with the executable being the value of
\* SOURCEKIT_LSP_PATH when the variable is set to a non-empty string and
\* 'sourcekit-lsp' when it is unset or empty.
C27_Launch ==
    io.kind = "spawn"
      => /\ LaunchRest
         /\ io.spawn[1].command = IF io.path.set /\ io.path.value # "" THEN io.path.value
                                  ELSE "sourcekit-lsp"

\* C27 witness: SOURCEKIT_LSP_PATH set and SOURCEKIT_BUILD_ARGS "a a": the
\* custom executable is spawned with the two arguments in the workspace root.
C27_Witness ==
    /\ io.kind = "spawn"
    /\ io.path = [set |-> TRUE, value |-> "/opt/swift/bin/sourcekit-lsp"]
    /\ io.args = [set |-> TRUE, value |-> <<"a", " ", "a">>]
    /\ io.spawn = <<[command |-> "/opt/swift/bin/sourcekit-lsp", args |-> << <<"a">>, <<"a">> >>,
                     cwd |-> io.root, stdio |-> <<"pipe", "pipe", "pipe">>]>>

\* C28 -- Handshake ordering. The initialized notification is written at most
\* once, and only in the step in which the initialize request is answered
\* successfully; an error reply to initialize writes nothing and makes
\* connect() fail; and after a failed handshake the client is Unstarted again:
\* it holds no connection that takes operations, as before connect().
C28_HandshakeOrder ==
    /\ [](Cardinality(Sent("initialized", NoUri)) <= 1)
    /\ [][/\ (\E i \in (Len(wire) + 1)..Len(wire') : wire'[i].method = "initialized")
               => /\ InitializeOutstanding
                  /\ ~InitializeOutstanding'
                  /\ startPc' \in {"started", "connected"}
          /\ (InitializeOutstanding /\ startPc' = "failed")
               => \A i \in (Len(wire) + 1)..Len(wire') : wire'[i].method # "initialized"
       ]_vars
    /\ [](startPc = "failed" => ~CanSend)

\* The document notifications written for uri after index from, by method.
DocumentsSince(w, uri, method, from) ==
    {i \in DOMAIN w : i > from /\ w[i].method = method /\ w[i].uri = uri}

\* The last didOpen written for uri, as an index of the wire; 0 when none.
LastOpen(w, uri) ==
    LET I == DocumentsSince(w, uri, "textDocument/didOpen", 0)
    IN  IF I = {} THEN 0 ELSE CHOOSE i \in I : \A j \in I : j <= i

\* C29 -- The tracker mirrors the wire. Whenever no openFile or closeFile call
\* is between its notification and its return, every uri either has no entry
\* and no didOpen written since its last didClose, or has an entry whose
\* version and content are those of the last didOpen / didChange written for
\* it, the version being 1 plus the number of didChange written since that
\* didOpen.
C29_TrackerMirrorsWire ==
    (\A o \in OpIds : ops[o].pc # "awaitNotify")
      => \A u \in Uris :
            LET last == LastDocument(wire, u)
                open == LastOpen(wire, u)
            IN  IF last = 0 \/ wire[last].method = "textDocument/didClose"
                THEN getFileVersion(openFiles, u) = 0
                ELSE /\ u \in DOMAIN openFiles
                     /\ openFiles[u].version = wire[last].version
                     /\ openFiles[u].content = wire[last].text
                     /\ openFiles[u].version
                          = 1 + Cardinality(DocumentsSince(wire, u, "textDocument/didChange", open))

\* C30 -- Document notifications stay well-formed under concurrent tool calls.
\* For every uri, the document notifications written for it are one didOpen at
\* version 1 followed by didChange notifications at versions 2, 3, ...: the
\* k-th notification for the uri carries version k, the first is the only
\* didOpen, and no two didChange carry the same version.
C30_WellFormedDocuments ==
    \A u \in Uris :
        LET I == {i \in DOMAIN wire : wire[i].method \in DocumentMethods /\ wire[i].uri = u}
        IN  \A i \in I :
               LET k == Cardinality({j \in I : j <= i})
               IN  /\ wire[i].version = k
                   /\ wire[i].method = IF k = 1 THEN "textDocument/didOpen"
                                                ELSE "textDocument/didChange"

\* The server's tool calls on one file, with the subprocess publishing
\* diagnostics for it at any time.
NextQueries ==
    \/ Connect
    \/ \E o \in OpIds, tool \in ToolNames : CallTool(o, tool, "/a.swift")
    \/ \E o \in OpIds : ReadFileDone(o)
    \/ \E o \in OpIds : NotifyDone(o)
    \/ \E o \in OpIds : Settle(o)
    \/ \E r \in pending, ok \in BOOLEAN : Reply(r, ok)
    \/ ProcessExit
    \/ \E d \in DiagLists : PublishDiagnostics("file:///a.swift", d)

SpecQueries == Init /\ [][NextQueries]_vars

\* The query requests a step writes.
NewQueryRequests ==
    {i \in (Len(wire) + 1)..Len(wire') :
        wire'[i].kind = "request" /\ wire'[i].method \notin {"initialize", "shutdown"}}

\* The operations that send their request in a step.
SendsQuery(o) == ops[o].pc # "awaitReply" /\ ops'[o].pc = "awaitReply"

\* C31 -- One request per operation. A hover, definition, references or symbols
\* call that reaches its query step on a live connection writes exactly one
\* request, of its own method and under its own id; once it has, it writes no
\* other one; and no request is written that is not some call's single request.
\* A diagnostics call writes no request: it reads the cache once, in the step
\* that ends its wait, and returns what it read.
C31_OneRequest ==
    [][/\ Cardinality(NewQueryRequests) = Cardinality({o \in OpIds : SendsQuery(o)})
       /\ \A o \in OpIds :
             /\ SendsQuery(o)
                  => /\ ops[o].pc \in {"idle", "readFile", "awaitNotify"}
                     /\ ops'[o].tool \in QueryTools
                     /\ \E i \in NewQueryRequests :
                           /\ wire'[i].id = ops'[o].id
                           /\ wire'[i].method = QueryMethod(ops'[o].tool)
                           /\ \A j \in NewQueryRequests : wire'[j].id = ops'[o].id => j = i
             /\ (CanSend /\ ops'[o].tool \in PositionTools
                   /\ ops[o].pc = "awaitNotify" /\ ops'[o].pc # "awaitNotify")
                  => SendsQuery(o)
             /\ (CanSend /\ ops'[o].tool \in PositionTools /\ ops[o].pc = "readFile"
                   /\ ops'[o].pc # "readFile" /\ ops[o].uri \in DOMAIN openFiles
                   /\ openFiles[ops[o].uri].content = fs[ops[o].file])
                  => SendsQuery(o)
             /\ (CanSend /\ ops[o].pc = "idle" /\ ops'[o].tool = "swift-symbols")
                  => SendsQuery(o)
             /\ ops[o].pc \in {"awaitReply", "done"}
                  => /\ ops'[o].pc \in {"awaitReply", "done"}
                     /\ ops'[o].id = ops[o].id
             /\ ops'[o].tool = "swift-diagnostics"
                  => /\ ops'[o].pc # "awaitReply"
                     /\ ops'[o].id = -1
             /\ (ops[o].pc = "settle" /\ ops'[o].pc # "settle")
                  => /\ ops'[o].pc = "done"
                     /\ ops'[o].diag = getDiagnostics(diagnosticsCache, ops[o].uri)
                     /\ wire' = wire
             /\ ops'[o].diag # ops[o].diag => ops[o].pc = "settle"
      ]_vars

\* C31 witness: a hover call and a diagnostics call have both returned a
\* result; the wire holds one request, the hover call's, and the diagnostics
\* call returned a non-empty list read from the cache.
C31_Witness ==
    /\ ops[1].tool = "swift-hover" /\ ops[1].pc = "done" /\ ops[1].res = "ok"
    /\ ops[2].tool = "swift-diagnostics" /\ ops[2].pc = "done" /\ ops[2].res = "ok"
    /\ ops[2].diag # << >>
    /\ \E i \in DOMAIN wire : QueryRequests = {i} /\ wire[i].id = ops[1].id

\* The client's methods called in any order on one document while the
\* subprocess publishes a diagnostic for it at any time.
NextCache ==
    \/ ClientConnect
    \/ \E o \in OpIds : ClientOpenFile(o, "file:///a.swift", "let x = 1")
    \/ \E o \in OpIds : ClientCloseFile(o, "file:///a.swift")
    \/ \E o \in OpIds : ClientQuery(o, "hover", "file:///a.swift")
    \/ \E o \in OpIds : ClientGetDiagnostics(o, "file:///a.swift")
    \/ \E s \in StopIds : ClientShutdown(s)
    \/ \E o \in OpIds : NotifyDone(o)
    \/ \E r \in pending, ok \in BOOLEAN : Reply(r, ok)
    \/ PublishDiagnostics("file:///a.swift", <<"error">>)

SpecCache == Init /\ [][NextCache]_vars

\* C32 -- The diagnostics cache is changed only by publishDiagnostics. A step
\* that changes the cache is the receipt of one notification: it stores that
\* notification's list under its uri and is no step of a client method (no
\* call starts, advances or ends, nothing is written, the tracker and the
\* outstanding requests stay as they are). Hence openFile, updateFile,
\* closeFile, the four queries, getDiagnostics and shutdown leave the cache as
\* it is, and closing a document does not evict its entry.
C32_CacheFrame ==
    [][diagnosticsCache' # diagnosticsCache
         => /\ \E u \in Uris, d \in DiagLists :
                  diagnosticsCache' = StoreDiagnostics(diagnosticsCache, u, d)
            /\ ops' = ops
            /\ stops' = stops
            /\ wire' = wire
            /\ openFiles' = openFiles
            /\ pending' = pending
            /\ conn' = conn
            /\ proc' = proc
      ]_vars

\* C32 witness: diagnostics were stored for /a.swift, the document was then
\* closed and shutdown() has ended, and the entry is still in the cache.
C32_Witness ==
    /\ "file:///a.swift" \in DOMAIN diagnosticsCache
    /\ diagnosticsCache["file:///a.swift"] # << >>
    /\ \E o \in OpIds : ops[o].tool = "closeFile" /\ ops[o].pc = "done"
                          /\ ops[o].res = "returned"
    /\ "file:///a.swift" \notin DOMAIN openFiles
    /\ conn = "disposed"

\* The request an operation is waiting on is answered in this step.
Answered(o) ==
    \E r \in pending :
        /\ r.owner = "op" /\ r.n = o /\ r.id = ops[o].id
        /\ r \notin pending'
        /\ ops'[o].pc = "done"
        /\ ops'[o].res \in {"ok", "remoteError"}
        /\ ops'[o].got = Answer(r)
        /\ conn' = conn

\* C33 -- No intrinsic timeout. A call waiting for the reply to its request
\* leaves that wait only in a step in which the subprocess has answered or has
\* exited: the step that reads its reply, the step that reads the reply to a
\* shutdown request (which disposes the connection), or the subprocess's exit.
\* No timer and no other call's step completes or rejects it. While it waits, another call that
\* reaches its query step on the live connection still writes its request.
C33_NoTimeout ==
    [][\A o \in OpIds :
          /\ (ops[o].pc = "awaitReply" /\ ops'[o] # ops[o])
               => \/ Answered(o)
                  \/ proc = "running" /\ proc' = "exited"
                  \/ ShutdownOutstanding /\ conn = "listening" /\ conn' = "disposed"
          /\ (ops[o].pc = "awaitReply" /\ ops'[o] = ops[o] /\ proc' = proc)
               => \E r \in pending' : r.owner = "op" /\ r.n = o /\ r.id = ops[o].id
          /\ \A k \in OpIds \ {o} :
                (ops[o].pc = "awaitReply" /\ ops'[o].pc = "awaitReply" /\ CanSend
                   /\ \/ ops[k].pc = "idle" /\ ops'[k].tool = "swift-symbols"
                      \/ /\ ops[k].pc = "awaitNotify" /\ ops'[k].pc # "awaitNotify"
                         /\ ops[k].tool \in PositionTools)
                  => /\ SendsQuery(k)
                     /\ Len(wire') = Len(wire) + 1
                     /\ wire'[Len(wire')].id = ops'[k].id
      ]_vars

\* C33 witness: the first call's request is still unanswered on a live
\* connection while a call made after it has sent its own request and has
\* returned its result.
C33_Witness ==
    /\ conn = "listening" /\ proc = "running"
    /\ ops[1].pc = "awaitReply"
    /\ \E r \in pending : r.id = ops[1].id
    /\ ops[2].pc = "done" /\ ops[2].res = "ok" /\ ops[2].tool \in QueryTools
    /\ ops[2].id > ops[1].id
    /\ \E i \in DOMAIN wire : wire[i].kind = "request" /\ wire[i].id = ops[2].id

\* The same with a subprocess that answers every request it is sent, and a
\* connection that delivers every answer.
SpecStopLive == SpecStop /\ WF_vars(\E r \in pending, ok \in BOOLEAN : Reply(r, ok))

\* C34 -- Shutdown always reaches the kill. Once shutdown() has sent its
\* request on a connected client, the connection is eventually disposed and
\* the subprocess killed, unless the subprocess exits by itself first; this
\* whether the shutdown request is answered with a result or with an error.
C34_ShutdownReachesKill ==
    \A s \in StopIds :
        (stops[s] = "awaitShutdown" /\ startPc = "connected")
          ~> (conn = "disposed" /\ proc = "killed") \/ proc = "exited"

\* The server with a signal arriving at any point of its life: during the
\* handshake, while calls are being served, or after the subprocess has died.
\* The subprocess answers every request it is sent while it lives.
NextSignals ==
    \/ Connect
    \/ \E o \in OpIds : CallTool(o, "swift-symbols", "/a.swift")
    \/ \E r \in pending, ok \in BOOLEAN : Reply(r, ok)
    \/ ProcessExit
    \/ \E s \in StopIds : Signal(s)

SpecSignals ==
    /\ Init
    /\ [][NextSignals]_vars
    /\ WF_vars(\E r \in pending, ok \in BOOLEAN : Reply(r, ok))

\* C35 -- Signal-driven exit. After SIGINT or SIGTERM has been delivered,
\* whenever in the process's life, stop() completes and the process exits
\* (or the process has exited by another path while stop() was under way).
C35_SignalExit ==
    \A s \in StopIds :
        (stops[s] # "idle")
          ~> (host = "exited" /\ stops[s] \in {"done", "awaitStop"})

\* openFile called, and called again after a failure, on a client whose
\* connection is not there yet, is live, or is lost and set up again.
NextRetry ==
    \/ ClientConnect
    \/ ClientReconnect
    \/ \E o \in OpIds, uri \in Uris, content \in Contents : ClientOpenFile(o, uri, content)
    \/ \E o \in OpIds : NotifyDone(o)
    \/ \E o \in OpIds : NotifyFail(o)
    \/ \E r \in pending, ok \in BOOLEAN : Reply(r, ok)
    \/ ProcessExit

SpecRetry == Init /\ [][NextRetry]_vars

\* An openFile call ends by throwing in this step.
OpenFileFails(o) ==
    /\ ops[o].pc \in {"idle", "awaitNotify"}
    /\ ops'[o].pc = "done"
    /\ ops'[o].tool = "openFile"
    /\ ops'[o].res \in {"typeError", "connectionClosed"}

\* C36 -- Failed synchronization leaves the tracker unchanged. A step in which
\* an openFile call fails, at the send or at its awaited write, leaves every
\* tracker entry as it was and writes nothing; a call that does not find the
\* connection live fails. A later openFile with the same arguments, made on a
\* live connection while the entry of the uri still lacks that content, writes
\* the notification: a didOpen with the text if the uri has no entry, a
\* didChange with the text and the next version if it has one.
C36_FailedSyncFrame ==
    [][\A o \in OpIds :
          /\ OpenFileFails(o) => openFiles' = openFiles /\ wire' = wire
          /\ (Calls(o, "openFile") /\ ~CanSend
                /\ ~(ops'[o].uri \in DOMAIN openFiles
                       /\ openFiles[ops'[o].uri].content = ops'[o].content))
               => OpenFileFails(o)
          /\ \A k \in OpIds \ {o} :
                (/\ ops[k].pc = "done" /\ ops[k].tool = "openFile"
                 /\ ops[k].res \in {"typeError", "connectionClosed"}
                 /\ Calls(o, "openFile") /\ CanSend
                 /\ ops'[o].uri = ops[k].uri /\ ops'[o].content = ops[k].content
                 /\ ~(ops[k].uri \in DOMAIN openFiles
                        /\ openFiles[ops[k].uri].content = ops[k].content))
                  => /\ Len(wire') = Len(wire) + 1
                     /\ wire'[Len(wire')].uri = ops[k].uri
                     /\ wire'[Len(wire')].text = ops[k].content
                     /\ IF ops[k].uri \in DOMAIN openFiles
                        THEN /\ wire'[Len(wire')].method = "textDocument/didChange"
                             /\ wire'[Len(wire')].version = openFiles[ops[k].uri].version + 1
                        ELSE /\ wire'[Len(wire')].method = "textDocument/didOpen"
                             /\ wire'[Len(wire')].version = 1
      ]_vars

\* C36 witness: the first openFile call failed at its awaited write on a
\* connection that closed, leaving no entry; after connect() was called again
\* the same call was repeated and its didOpen is on the wire a second time.
C36_Witness ==
    /\ ops[1].tool = "openFile" /\ ops[1].pc = "done" /\ ops[1].res = "connectionClosed"
    /\ ops[2].tool = "openFile" /\ ops[2].pc = "awaitNotify"
    /\ ops[2].uri = ops[1].uri /\ ops[2].content = ops[1].content
    /\ ops[1].uri \notin DOMAIN openFiles
    /\ Cardinality(Sent("textDocument/didOpen", ops[1].uri)) = 2

\* What the subprocess finds in a text: each content has its own diagnostics.
DiagnosticsOf(text) == IF text = "let x = 1" THEN <<"error">> ELSE <<"warning", "error">>

\* The diagnostics tool called on a file that is edited between calls, each
\* call made after the one before it has returned, with a subprocess that
\* publishes, at some time of its choosing, the diagnostics of
\* the text it was last sent for a document.
NextStale ==
    \/ Connect
    \/ /\ \A k \in OpIds : ops[k].pc \in {"idle", "done"}
       /\ \E o \in OpIds, file \in Files : CallTool(o, "swift-diagnostics", file)
    \/ \E o \in OpIds : ReadFileDone(o)
    \/ \E o \in OpIds : NotifyDone(o)
    \/ \E o \in OpIds : Settle(o)
    \/ \E r \in pending, ok \in BOOLEAN : Reply(r, ok)
    \/ \E file \in Files, content \in Contents : EditFile(file, content)
    \/ \E uri \in Uris :
          /\ LastDocument(wire, uri) # 0
          /\ PublishDiagnostics(uri, DiagnosticsOf(wire[LastDocument(wire, uri)].text))

SpecStale == Init /\ [][NextStale]_vars

\* C37 -- Diagnostics are never stale. When a diagnostics call reads the cache
\* for a uri whose tracked content is the text last sent for it, the
\* diagnostics it renders are those of that content: after a didChange for new
\* content, a set received for the content before it is not rendered.
C37_NeverStale ==
    [][\A o \in OpIds :
          (/\ ops[o].pc = "settle" /\ ops'[o].pc = "done"
           /\ ops[o].tool = "swift-diagnostics"
           /\ ops'[o].diag # << >>
           /\ ops[o].uri \in DOMAIN openFiles
           /\ LastDocument(wire, ops[o].uri) # 0
           /\ openFiles[ops[o].uri].content = wire[LastDocument(wire, ops[o].uri)].text)
            => ops'[o].diag = DiagnosticsOf(openFiles[ops[o].uri].content)
      ]_vars

\* The lines of a rendered diagnostics list that carry a label of a set.
Labelled(diagnostics, labels) ==
    Cardinality({i \in DOMAIN diagnostics : SeverityLabel(diagnostics[i]) \in labels})

\* C38 -- The diagnostics summary is consistent with the listing. For every
\* non-empty list the tool renders, the error, warning and other counts of the
\* summary add up to the number of lines listed, the error count is the number
\* of lines labelled Error, the warning count the number of lines labelled
\* Warning, and the other count the number of the remaining lines.
C38_SummaryConsistent ==
    (io.kind = "diagnostics" /\ Len(io.result) > 0)
      => /\ io.text = RenderDiagnostics(io.result)
         /\ ErrorCount(io.result) + WarningCount(io.result) + OtherCount(io.result)
              = Len(io.result)
         /\ ErrorCount(io.result) = Labelled(io.result, {"Error"})
         /\ WarningCount(io.result) = Labelled(io.result, {"Warning"})
         /\ OtherCount(io.result) = Labelled(io.result, {"Info", "Hint", "Unknown"})

====
